---- MODULE Spec2Model ----
(***************************************************************************)
(* State-machine model of AdaptiveLaguerreFilter                           *)
(* (src/src/python/adaptive_laguerre_filter.py).                           *)
(*                                                                         *)
(* Floating-point values are modelled as exact rationals <<n, d>> in       *)
(* lowest terms with d > 0; NaN is the pair <<0, 0>>.  A Python array      *)
(* index k is the sequence index k + 1; the entries of an output array     *)
(* that the loop has not reached yet hold their initial value.             *)
(***************************************************************************)
EXTENDS Integers, Sequences, FiniteSets

(* ---------------- bounds of the model ---------------- *)
MaxLength == 3
MaxOrder == 3
MaxSmooth == 2
MaxBars == 9
MaxSteps == 4
MaxCalls == 2
MaxEarlier == 1
MaxDenominator == 2000
MaxMagnitude == 100000000
Prices == {0, 1, 2}
MaxSingleOrder == 4
MaxSamples == 204
StepSamples == 20
MaxSeries == 8
MaxList == 2
MaxIter == 2
Values == {1, 2}
Scores == {-1, 0, 1}
MaxTrades == 3
MaxRegistered == 1
MaxDirect == 2
MaxRuns == 2
MaxPopulation == 2
MaxGenerations == 2
MaxPhases == 2
MaxPhaseIter == 1
EntryPrices == {50, 100}
ExitPrices == {90, 100, 110}
SinglePrices == {100, 110}
\* the pairs of gammas two SimpleLaguerreFilter instances are stepped with,
\* gamma = numerator / Base: (0.1, 0.9) and (0.01, 0.5)
GammaPairs == {<<1000, 9000>>, <<100, 5000>>}

(* ---------------- SmoothMode enum (lines 13-19) ---------------- *)
SMA == 0
EMA == 1
WILDER == 2
LWMA == 3
MEDIAN == 4
SmoothMode == {SMA, EMA, WILDER, LWMA, MEDIAN}

(* ---------------- exact arithmetic on floats ---------------- *)
Abs(x) == IF x < 0 THEN -x ELSE x

RECURSIVE GCD(_, _)
GCD(a, b) == IF b = 0 THEN a ELSE GCD(b, a % b)

NaN == <<0, 0>>
IsNaN(a) == a[2] = 0

RNorm(n, d) ==
    IF d = 0 THEN NaN
    ELSE LET g == GCD(Abs(n), Abs(d))
             s == IF d < 0 THEN -1 ELSE 1
         IN  <<s * (n \div g), Abs(d) \div g>>

RInt(k) == <<k, 1>>
Zero == RInt(0)
One == RInt(1)

RNeg(a) == IF IsNaN(a) THEN NaN ELSE <<-a[1], a[2]>>

RAdd(a, b) ==
    IF IsNaN(a) \/ IsNaN(b) THEN NaN
    ELSE LET g == GCD(a[2], b[2])
         IN  RNorm(a[1] * (b[2] \div g) + b[1] * (a[2] \div g),
                   (a[2] \div g) * b[2])

RSub(a, b) == RAdd(a, RNeg(b))

RMul(a, b) ==
    IF IsNaN(a) \/ IsNaN(b) THEN NaN
    ELSE IF a[1] = 0 \/ b[1] = 0 THEN <<0, 1>>
    ELSE LET g1 == GCD(Abs(a[1]), b[2])
             g2 == GCD(Abs(b[1]), a[2])
             s == IF (a[1] < 0) = (b[1] < 0) THEN 1 ELSE -1
         IN  <<s * (Abs(a[1]) \div g1) * (Abs(b[1]) \div g2),
               (a[2] \div g2) * (b[2] \div g1)>>

RDiv(a, b) ==
    IF IsNaN(a) \/ IsNaN(b) \/ b[1] = 0 THEN NaN
    ELSE RMul(a, IF b[1] < 0 THEN <<-b[2], -b[1]>> ELSE <<b[2], b[1]>>)

RAbs(a) == IF IsNaN(a) THEN NaN ELSE <<Abs(a[1]), a[2]>>

\* comparisons are False when an operand is NaN, as in IEEE arithmetic
RLess(a, b) == ~IsNaN(a) /\ ~IsNaN(b) /\ RSub(a, b)[1] < 0
RLeq(a, b) == ~IsNaN(a) /\ ~IsNaN(b) /\ RSub(a, b)[1] <= 0

(* ---------------- exact decimal arithmetic for long runs ---------------- *)
\* A decimal is <<sign, limbs, e>>: sign * (sum of limbs[k] * Base^(k-1)) / Base^e,
\* limbs without leading zero limbs, zero being <<1, <<>>, 0>>.
Base == 100 * 100

Limb(a, k) == IF k <= Len(a) THEN a[k] ELSE 0

\* drop the leading (most significant) zero limbs
RECURSIVE Strip(_)
Strip(a) == IF a = <<>> THEN <<>>
            ELSE IF a[Len(a)] = 0 THEN Strip(SubSeq(a, 1, Len(a) - 1)) ELSE a

RECURSIVE BigAdd(_, _, _, _)
BigAdd(a, b, k, carry) ==
    IF k > Len(a) /\ k > Len(b) THEN (IF carry = 0 THEN <<>> ELSE <<carry>>)
    ELSE LET t == Limb(a, k) + Limb(b, k) + carry
         IN  <<t % Base>> \o BigAdd(a, b, k + 1, t \div Base)

\* a - b for a >= b
RECURSIVE BigSub(_, _, _, _)
BigSub(a, b, k, borrow) ==
    IF k > Len(a) THEN <<>>
    ELSE LET t == Limb(a, k) - Limb(b, k) - borrow
         IN  <<IF t < 0 THEN t + Base ELSE t>> \o BigSub(a, b, k + 1, IF t < 0 THEN 1 ELSE 0)

RECURSIVE BigMul(_, _, _, _)
BigMul(a, m, k, carry) ==
    IF k > Len(a) THEN (IF carry = 0 THEN <<>> ELSE <<carry>>)
    ELSE LET t == a[k] * m + carry
         IN  <<t % Base>> \o BigMul(a, m, k + 1, t \div Base)

\* a < b, for limbs without leading zeros, compared from limb k downwards
RECURSIVE BigLessFrom(_, _, _)
BigLessFrom(a, b, k) ==
    IF k = 0 THEN FALSE
    ELSE IF a[k] # b[k] THEN a[k] < b[k] ELSE BigLessFrom(a, b, k - 1)

BigLess(a, b) ==
    IF Len(a) # Len(b) THEN Len(a) < Len(b) ELSE BigLessFrom(a, b, Len(a))

\* a * Base^n
Shift(a, n) == IF a = <<>> THEN <<>>
               ELSE [j \in 1..(n + Len(a)) |-> IF j <= n THEN 0 ELSE a[j - n]]

DZero == <<1, <<>>, 0>>
DInt(n) == IF n = 0 THEN DZero ELSE <<IF n < 0 THEN -1 ELSE 1, Strip(<<(IF n < 0 THEN -n ELSE n) % Base, (IF n < 0 THEN -n ELSE n) \div Base>>), 0>>

\* drop the trailing zero limbs of the fraction
RECURSIVE DNorm(_)
DNorm(x) ==
    IF x[2] = <<>> THEN DZero
    ELSE IF x[3] > 0 /\ x[2][1] = 0 THEN DNorm(<<x[1], Tail(x[2]), x[3] - 1>>)
    ELSE x

DNeg(x) == IF x[2] = <<>> THEN x ELSE <<-x[1], x[2], x[3]>>

DAdd(x, y) ==
    LET e == IF x[3] > y[3] THEN x[3] ELSE y[3]
        a == Shift(x[2], e - x[3])
        b == Shift(y[2], e - y[3])
    IN  IF x[1] = y[1] THEN DNorm(<<x[1], BigAdd(a, b, 1, 0), e>>)
        ELSE IF BigLess(a, b) THEN DNorm(<<y[1], Strip(BigSub(b, a, 1, 0)), e>>)
        ELSE DNorm(<<x[1], Strip(BigSub(a, b, 1, 0)), e>>)

DSub(x, y) == DAdd(x, DNeg(y))

\* x * m for an integer 0 <= m < Base
DTimes(x, m) == IF m = 0 THEN DZero ELSE <<x[1], BigMul(x[2], m, 1, 0), x[3]>>

\* x * (m / Base)
DFrac(x, m) == IF m = 0 \/ x[2] = <<>> THEN DZero
               ELSE DNorm(<<x[1], BigMul(x[2], m, 1, 0), x[3] + 1>>)

DAbs(x) == <<1, x[2], x[3]>>
DLess(x, y) == LET d == DSub(x, y) IN d[1] = -1 /\ d[2] # <<>>
DLeq(x, y) == ~DLess(y, x)

(* ---------------- binary64 arithmetic ---------------- *)
\* A double is <<s, m, e>>, the value s * m * 2^e: s is 1 or -1 and m the
\* limbs (of Base, as above) of an integer with 2^52 <= m < 2^53.  0.0 is
\* <<1, <<>>, 0>>, nan is <<0, <<>>, 0>>, inf is <<2, <<>>, 0>> and -inf is
\* <<-2, <<>>, 0>>.  Every operation rounds its exact result to the nearest
\* double, ties to the even mantissa.  Subnormal numbers and the sign of
\* zero are not represented.
F64Zero == <<1, <<>>, 0>>
F64NaN == <<0, <<>>, 0>>
F64Inf(s) == <<2 * s, <<>>, 0>>
IsFinite(x) == x[1] = 1 \/ x[1] = -1
IsZero(x) == IsFinite(x) /\ x[2] = <<>>

\* the widest power of two a limb is multiplied or divided by in one pass
Two13 == 2 ^ 13

\* a * 2^k
RECURSIVE ScaleUp(_, _)
ScaleUp(a, k) ==
    IF k = 0 THEN a
    ELSE IF k >= 13 THEN ScaleUp(BigMul(a, Two13, 1, 0), k - 13)
    ELSE ScaleUp(BigMul(a, 2, 1, 0), k - 1)

Two39 == ScaleUp(<<1>>, 39)
Two52 == ScaleUp(<<1>>, 52)
Two53 == ScaleUp(<<1>>, 53)
Two54 == ScaleUp(<<1>>, 54)
Two67 == ScaleUp(<<1>>, 67)

\* a * b, from limb k of b on
RECURSIVE BigTimes(_, _, _)
BigTimes(a, b, k) ==
    IF k > Len(b) THEN <<>>
    ELSE BigAdd(Shift(BigMul(a, b[k], 1, 0), k - 1), BigTimes(a, b, k + 1), 1, 0)

\* the limbs of a \div d and the value of a % d for 0 < d <= Two13, from
\* limb k of a down, rem being what the limbs above it left
RECURSIVE BigQuot(_, _, _, _)
BigQuot(a, d, k, rem) ==
    IF k = 0 THEN <<>>
    ELSE Append(BigQuot(a, d, k - 1, (rem * Base + a[k]) % d), (rem * Base + a[k]) \div d)

RECURSIVE BigRem(_, _, _, _)
BigRem(a, d, k, rem) ==
    IF k = 0 THEN rem ELSE BigRem(a, d, k - 1, (rem * Base + a[k]) % d)

\* a \div d for 0 < d <= Two13
BigDiv(a, d) == Strip(BigQuot(a, d, Len(a), 0))

\* The double nearest to s * n * 2^e for limbs n; sticky says that the exact
\* value lies above n * 2^e by less than 2^e, and comes with n >= 2^54 only.
RECURSIVE F64Round(_, _, _, _)
F64Round(s, n, e, sticky) ==
    IF n = <<>> THEN F64Zero
    ELSE IF BigLess(n, Two39) THEN F64Round(s, BigMul(n, Two13, 1, 0), e - 13, sticky)
    ELSE IF BigLess(n, Two52) THEN F64Round(s, BigMul(n, 2, 1, 0), e - 1, sticky)
    ELSE IF BigLess(n, Two53) THEN (IF e > 971 THEN F64Inf(s) ELSE <<s, n, e>>)
    ELSE IF BigLess(n, Two54)
    THEN LET q == BigDiv(n, 2)
             up == n[1] % 2 = 1 /\ (sticky \/ q[1] % 2 = 1)
         IN  F64Round(s, IF up THEN BigAdd(q, <<1>>, 1, 0) ELSE q, e + 1, FALSE)
    ELSE IF BigLess(n, Two67)
    THEN F64Round(s, BigDiv(n, 2), e + 1, sticky \/ n[1] % 2 = 1)
    ELSE F64Round(s, BigDiv(n, Two13), e + 13,
                  sticky \/ BigRem(n, Two13, Len(n), 0) # 0)

\* float(k) for an integer k of up to 8 digits
F64Int(k) ==
    F64Round(IF k < 0 THEN -1 ELSE 1, Strip(<<Abs(k) % Base, Abs(k) \div Base>>), 0, FALSE)

F64Neg(x) == IF IsZero(x) THEN x ELSE <<-x[1], x[2], x[3]>>

F64Add(x, y) ==
    IF x[1] = 0 \/ y[1] = 0 THEN F64NaN
    ELSE IF ~IsFinite(x) THEN (IF ~IsFinite(y) /\ y[1] # x[1] THEN F64NaN ELSE x)
    ELSE IF ~IsFinite(y) THEN y
    ELSE IF x[2] = <<>> THEN y
    ELSE IF y[2] = <<>> THEN x
    ELSE IF x[3] - y[3] > 55 THEN x
    ELSE IF y[3] - x[3] > 55 THEN y
    ELSE LET e == IF x[3] < y[3] THEN x[3] ELSE y[3]
             a == ScaleUp(x[2], x[3] - e)
             b == ScaleUp(y[2], y[3] - e)
         IN  IF x[1] = y[1] THEN F64Round(x[1], BigAdd(a, b, 1, 0), e, FALSE)
             ELSE IF BigLess(a, b) THEN F64Round(y[1], Strip(BigSub(b, a, 1, 0)), e, FALSE)
             ELSE F64Round(x[1], Strip(BigSub(a, b, 1, 0)), e, FALSE)

F64Sub(x, y) == F64Add(x, F64Neg(y))

\* x < y, which is false when either is nan
F64Less(x, y) == F64Sub(x, y)[1] < 0

F64Abs(x) == IF x[1] < 0 THEN F64Neg(x) ELSE x

F64Mul(x, y) ==
    IF x[1] = 0 \/ y[1] = 0 THEN F64NaN
    ELSE IF ~IsFinite(x) \/ ~IsFinite(y)
    THEN (IF IsZero(x) \/ IsZero(y) THEN F64NaN
          ELSE F64Inf((IF x[1] < 0 THEN -1 ELSE 1) * (IF y[1] < 0 THEN -1 ELSE 1)))
    ELSE IF x[2] = <<>> \/ y[2] = <<>> THEN F64Zero
    ELSE F64Round(x[1] * y[1], Strip(BigTimes(x[2], y[2], 1)), x[3] + y[3], FALSE)

\* what a division by 0 gives where it does not raise (numpy): nan for 0 / 0,
\* an infinity otherwise
F64ByZero(x) ==
    IF x[1] = 0 \/ IsZero(x) THEN F64NaN
    ELSE F64Inf(IF x[1] < 0 THEN -1 ELSE 1)

\* x / d for an integer 0 <= d <= Two13
F64DivInt(x, d) ==
    IF d = 0 THEN F64ByZero(x)
    ELSE IF ~IsFinite(x) \/ x[2] = <<>> THEN x
    ELSE F64Round(x[1], BigDiv(ScaleUp(x[2], 16), d), x[3] - 16,
                  BigRem(ScaleUp(x[2], 16), d, Len(ScaleUp(x[2], 16)), 0) # 0)

\* Long division of limbs, the divisor d having its top limb >= Base / 2.
\* The digit of the quotient for a remainder rem < d * Base: the estimate
\* from the top limbs is at most 2 too large and is counted down.
RECURSIVE Correct(_, _, _)
Correct(rem, d, qhat) ==
    IF BigLess(rem, BigMul(d, qhat, 1, 0)) THEN Correct(rem, d, qhat - 1) ELSE qhat

QuotDigit(rem, d) ==
    IF BigLess(rem, d) THEN 0
    ELSE LET top == IF Len(rem) > Len(d) THEN rem[Len(d) + 1] * Base + rem[Len(d)]
                    ELSE rem[Len(d)]
             qhat == top \div d[Len(d)]
         IN  Correct(rem, d, IF qhat < Base THEN qhat ELSE Base - 1)

\* st is <<rem, q>> after the limbs of n above limb k; the result is
\* <<n % d, n \div d>>, the quotient with leading zero limbs
RECURSIVE LongDiv(_, _, _, _)
RECURSIVE LongStep(_, _, _, _, _)
RECURSIVE LongSub(_, _, _, _, _, _)
LongDiv(st, n, d, k) ==
    IF k = 0 THEN st
    ELSE LongStep(Strip(<<n[k]>> \o st[1]), st[2], n, d, k)

LongStep(rem, q, n, d, k) == LongSub(rem, QuotDigit(rem, d), q, n, d, k)

LongSub(rem, digit, q, n, d, k) ==
    IF digit = 0 THEN LongDiv(<<rem, <<0>> \o q>>, n, d, k - 1)
    ELSE LongDiv(<<Strip(BigSub(rem, BigMul(d, digit, 1, 0), 1, 0)), <<digit>> \o q>>,
                 n, d, k - 1)

\* <<n % d, n \div d>> for limbs n and d, d # <<>>: both are scaled to bring
\* the top limb of d to Base / 2 or more, and the remainder is left scaled
BigDivMod(n, d) ==
    LET f == Base \div (d[Len(d)] + 1)
        st == LongDiv(<<<<>>, <<>>>>, BigMul(n, f, 1, 0), BigMul(d, f, 1, 0),
                      Len(BigMul(n, f, 1, 0)))
    IN  <<st[1], Strip(st[2])>>

\* x / y for finite x and y
F64Div(x, y) ==
    IF x[1] = 0 \/ y[1] = 0 THEN F64NaN
    ELSE IF y[2] = <<>> THEN F64ByZero(x)
    ELSE IF x[2] = <<>> THEN F64Zero
    ELSE LET st == BigDivMod(ScaleUp(x[2], 56), y[2])
         IN  F64Round(x[1] * y[1], st[2], x[3] - y[3] - 56, st[1] # <<>>)

\* The integer square root by Newton's iteration from a start r >= sqrt(h):
\* r is replaced by (r + h \div r) \div 2 until that is no smaller.
RECURSIVE IntNewton(_, _)
RECURSIVE IntNewtonStep(_, _, _)
IntNewton(h, r) == IntNewtonStep(h, r, (r + h \div r) \div 2)

IntNewtonStep(h, r, next) == IF next >= r THEN r ELSE IntNewton(h, next)

\* the same for limbs n and r
RECURSIVE BigNewton(_, _)
RECURSIVE BigNewtonStep(_, _, _)
BigNewton(n, r) == BigNewtonStep(n, r, BigDiv(BigAdd(r, BigDivMod(n, r)[2], 1, 0), 2))

BigNewtonStep(n, r, next) == IF BigLess(next, r) THEN BigNewton(n, next) ELSE r

\* sqrt(x): the integer square root of n = m * 2^(56 or 57), the exponent made
\* even, started from above with the root of the leading 28 bits of n
F64Sqrt(x) ==
    IF x[1] <= 0 THEN F64NaN
    ELSE IF x[2] = <<>> \/ ~IsFinite(x) THEN x
    ELSE LET odd == x[3] % 2
             n == ScaleUp(x[2], 56 + odd)
             lead == BigDiv(BigDiv(ScaleUp(x[2], odd), Two13), Two13)
             h == Limb(lead, 1) + Limb(lead, 2) * Base + Limb(lead, 3) * Base * Base
             start == IntNewton(h, 2 * Two13) + 1
             root == BigNewton(n, ScaleUp(Strip(<<start % Base, start \div Base>>), 41))
         IN  F64Round(1, root, (x[3] - odd - 56) \div 2, BigTimes(root, root, 1) # n)

(* ---------------- array helpers ---------------- *)
\* array[k] of an array that is NaN beyond the part written so far
At(array, k) == IF k + 1 \in DOMAIN array THEN array[k + 1] ELSE NaN

\* array[start:stop] with 0 <= start
Slice(array, start, stop) ==
    [j \in 1..(IF stop > start THEN stop - start ELSE 0) |-> At(array, start + j - 1)]

\* values[~np.isnan(values)]
RECURSIVE Valid(_)
Valid(values) ==
    IF values = <<>> THEN <<>>
    ELSE IF IsNaN(Head(values)) THEN Valid(Tail(values))
         ELSE <<Head(values)>> \o Valid(Tail(values))

RECURSIVE RSum(_)
RSum(values) ==
    IF values = <<>> THEN Zero ELSE RAdd(Head(values), RSum(Tail(values)))

Mean(values) == RDiv(RSum(values), RInt(Len(values)))

RMax(values) ==
    values[CHOOSE j \in DOMAIN values : \A k \in DOMAIN values : RLeq(values[k], values[j])]
RMin(values) ==
    values[CHOOSE j \in DOMAIN values : \A k \in DOMAIN values : RLeq(values[j], values[k])]

\* r-th smallest element (r = 1 is the minimum) of a non-empty sequence
OrderStat(values, r) ==
    values[CHOOSE j \in DOMAIN values :
              /\ Cardinality({k \in DOMAIN values : RLess(values[k], values[j])}) < r
              /\ r <= Cardinality({k \in DOMAIN values : RLeq(values[k], values[j])})]

\* np.median
Median(values) ==
    LET n == Len(values)
    IN  IF n % 2 = 1 THEN OrderStat(values, (n + 1) \div 2)
        ELSE RDiv(RAdd(OrderStat(values, n \div 2), OrderStat(values, n \div 2 + 1)), RInt(2))

(* ---------------- state ---------------- *)
VARIABLES
    constructor,      \* "idle" before __init__ runs, then "returned" or "raised"
    length, order, adaptive_mode, adaptive_smooth, adaptive_smooth_mode,
    L,                \* L[s] = <<current, previous>> of stage s - 1
    ema_buffer,       \* <<ema_buffer[0], ema_buffer[1]>>
    ema_initialized,
    calls,            \* calculate() calls started on the instance
    steps,            \* _laguerre_filter calls made on the instance
    prices,           \* the part of the price list the loop has consumed
    i,                \* loop index of calculate()
    laguerre, trend, gamma_values, diff,
    raw,              \* the unsmoothed value of _calculate_adaptive_gamma per bar
    result,           \* <<price list, 'laguerre' array>> a caller has kept of the call before
    error,            \* the exception the running call has raised, "" while it has raised none
    \* two instances of the SimpleLaguerreFilter of tests/test_laguerre_filter.py,
    \* fed the same prices, instance j being stepped with single_gamma[j]
    single_order,
    single_length,    \* length of instance j
    single_gamma,     \* gamma of instance j, as the numerator of single_gamma[j] / Base
    single_L,         \* single_L[j][s] = <<current, previous>> of stage s - 1 of instance j
    single_result,    \* what calculate_single returned last: <<sum(values), len(values)>>
    single_prices,    \* the prices fed so far
    \* a second AdaptiveLaguerreFilter constructed with the same arguments
    bound,            \* the object (1 or 2) the running call has as self
    other,            \* <<L, ema_buffer, ema_initialized>> of the object that is not self
    \* the adapters of src/src/tools
    optimizer,        \* an OptimizationAdapter and the optimize() call running on it
    hybrid,           \* a HybridOptimizer and the optimize() call running on it
    metrics           \* MetricFactory._metrics, a list of trades, the adapter created and the scores returned

config == <<constructor, length, order, adaptive_mode, adaptive_smooth, adaptive_smooth_mode>>
instance == <<L, ema_buffer, ema_initialized>>
locals == <<prices, i, laguerre, trend, gamma_values, diff, raw>>
filter == <<config, instance, calls, steps, locals, result, error>>
single == <<single_order, single_length, single_gamma, single_L, single_result, single_prices>>
pair == <<bound, other>>
tools == <<optimizer, hybrid, metrics>>
vars == <<filter, single, pair, tools>>

(* ---------------- _trima_gen (lines 279-294) ---------------- *)
TrimaLen1(period) == (period + 1) \div 2
TrimaLen2(period) == (period + 2) \div 2

RECURSIVE TrimaSum(_, _, _, _)
TrimaSum(array, len1, len2, k) ==
    IF k >= len2 THEN Zero
    ELSE LET n == Len(array)
             lo == IF n - len1 - k > 0 THEN n - len1 - k ELSE 0
             subset == Slice(array, lo, n - k)
             term == IF k < n /\ Len(subset) > 0 THEN Mean(subset) ELSE Zero
         IN  RAdd(term, TrimaSum(array, len1, len2, k + 1))

\* an average whose weights do not sum to 1: the sum of the len2 means
\* divided by len1
trima_gen_len1(array, period) ==
    LET len1 == TrimaLen1(period)
        len2 == TrimaLen2(period)
    IN  IF len2 > 0 THEN RDiv(TrimaSum(array, len1, len2, 0), RInt(len1)) ELSE Zero

trima_gen(array, period) ==
    LET len1 == TrimaLen1(period)
        len2 == TrimaLen2(period)
    IN  IF len2 > 0 THEN RDiv(TrimaSum(array, len1, len2, 0), RInt(len2)) ELSE Zero

(* ---------------- _laguerre_filter (lines 142-179) ---------------- *)
\* a step that leaves the previous values as they were
CopyPreviousSkipped(Lold) == Lold

\* self.L[:, 1] = self.L[:, 0]
CopyPrevious(Lold) == [s \in DOMAIN Lold |-> <<Lold[s][1], Lold[s][1]>>]

\* a recursion whose later stages read the preceding stage's previous value
\* where the code reads the value computed in this step
StageValueStale(Lc, price, gam, bar, ord, s) ==
    IF bar <= ord THEN price
    ELSE IF s = 1
         THEN RAdd(RMul(RSub(One, gam), price), RMul(gam, Lc[1][2]))
         ELSE RAdd(RAdd(RMul(RNeg(gam), Lc[s - 1][2]), Lc[s - 1][2]),
                   RMul(gam, Lc[s][2]))

\* the current value of stage s - 1 after the loop of lines 167-176,
\* Lc being the state after the copy of line 162
RECURSIVE StageValue(_, _, _, _, _, _)
StageValue(Lc, price, gam, bar, ord, s) ==
    IF bar <= ord THEN price
    ELSE IF s = 1
         THEN RAdd(RMul(RSub(One, gam), price), RMul(gam, Lc[1][2]))
         ELSE RAdd(RAdd(RMul(RNeg(gam), StageValue(Lc, price, gam, bar, ord, s - 1)),
                        Lc[s - 1][2]),
                   RMul(gam, Lc[s][2]))

LaguerreState(Lold, price, gamma, bar, ord) ==
    LET gam == RSub(One, gamma)
        Lc == CopyPrevious(Lold)
    IN  [s \in DOMAIN Lold |-> <<StageValue(Lc, price, gam, bar, ord, s), Lc[s][2]>>]

\* SimpleLaguerreFilter._laguerre_filter, lines 64-76 of test_laguerre_simple.py:
\* the value the dependency-free variant returns for the stage values of Lnew
SimpleLaguerreValue(Lnew) ==
    RDiv(RSum([s \in DOMAIN Lnew |-> Lnew[s][1]]), RInt(Len(Lnew)))

\* lines 176-179: the filtered value of a step that left the state Lnew
LaguerreValue(Lnew, ord) == trima_gen([s \in DOMAIN Lnew |-> Lnew[s][1]], ord)

(* ---------------- _calculate_adaptive_gamma (lines 181-218) ---------------- *)
\* an efficiency ratio whose minimum and maximum leave out the current bar
calculate_adaptive_gamma_lagged(d, bar, len) ==
    IF bar < len THEN Zero
    ELSE LET start_idx == IF bar - len > 0 THEN bar - len ELSE 0
             valid_diff == Valid(Slice(d, start_idx, bar))
         IN  IF Len(valid_diff) = 0 THEN Zero
             ELSE LET max_diff == RMax(valid_diff)
                      min_diff == RMin(valid_diff)
                  IN  IF RSub(max_diff, min_diff) # Zero
                      THEN RDiv(RSub(At(d, bar), min_diff), RSub(max_diff, min_diff))
                      ELSE Zero

\* an efficiency ratio without the guard of line 213
calculate_adaptive_gamma_unguarded(d, bar, len) ==
    IF bar < len THEN Zero
    ELSE LET start_idx == IF bar - len + 1 > 0 THEN bar - len + 1 ELSE 0
             valid_diff == Valid(Slice(d, start_idx, bar + 1))
         IN  IF Len(valid_diff) = 0 THEN Zero
             ELSE LET max_diff == RMax(valid_diff)
                      min_diff == RMin(valid_diff)
                  IN  RDiv(RSub(At(d, bar), min_diff), RSub(max_diff, min_diff))

calculate_adaptive_gamma(d, bar, len) ==
    IF bar < len THEN Zero
    ELSE LET start_idx == IF bar - len + 1 > 0 THEN bar - len + 1 ELSE 0
             valid_diff == Valid(Slice(d, start_idx, bar + 1))
         IN  IF Len(valid_diff) = 0 THEN Zero
             ELSE LET max_diff == RMax(valid_diff)
                      min_diff == RMin(valid_diff)
                  IN  IF RSub(max_diff, min_diff) # Zero
                      THEN RDiv(RSub(At(d, bar), min_diff), RSub(max_diff, min_diff))
                      ELSE Zero

(* ---------------- smoothing (lines 220-277) ---------------- *)
sma(array, period, bar) ==
    IF bar < period - 1 THEN Zero
    ELSE LET valid_values == Valid(Slice(array, bar - period + 1, bar + 1))
         IN  IF Len(valid_values) = 0 THEN Zero ELSE Mean(valid_values)

\* an exponential average with Wilder's classic factor 1 / period
ema_state_wilder(buf, init, price, period) ==
    LET alpha == RNorm(1, period)
        e0 == IF ~init THEN price
              ELSE RAdd(buf[2], RMul(alpha, RSub(price, buf[2])))
    IN  <<e0, e0>>

\* the new <<ema_buffer[0], ema_buffer[1]>> and ema_initialized
ema_state(buf, init, price, period) ==
    LET alpha == RNorm(2, 1 + period)
        e0 == IF ~init THEN price
              ELSE RAdd(buf[2], RMul(alpha, RSub(price, buf[2])))
    IN  <<e0, e0>>

RECURSIVE LwmaSums(_, _, _, _)
\* <<weight_sum, value_sum>> over the lags k..period-1
LwmaSums(array, period, bar, k) ==
    IF k >= period THEN <<0, Zero>>
    ELSE LET rest == LwmaSums(array, period, bar, k + 1)
             idx == bar - k
         IN  IF idx >= 0 /\ ~IsNaN(At(array, idx))
             THEN <<rest[1] + (period - k),
                    RAdd(rest[2], RMul(At(array, idx), RInt(period - k)))>>
             ELSE rest

lwma(array, period, bar) ==
    IF bar < period - 1 THEN Zero
    ELSE LET sums == LwmaSums(array, period, bar, 0)
         IN  IF sums[1] > 0 THEN RDiv(sums[2], RInt(sums[1])) ELSE Zero

median(array, period, bar) ==
    IF bar < period - 1 THEN Zero
    ELSE LET valid_values == Valid(Slice(array, bar - period + 1, bar + 1))
         IN  IF Len(valid_values) = 0 THEN Zero ELSE Median(valid_values)

(* ---------------- __init__ (lines 29-60) ---------------- *)
\* no SimpleLaguerreFilter exists
SingleIdle ==
    /\ single_order = 0
    /\ single_length = <<>>
    /\ single_gamma = <<>>
    /\ single_L = <<>>
    /\ single_result = <<>>
    /\ single_prices = <<>>

\* no adapter of src/src/tools exists
NoTools ==
    /\ optimizer = <<>>
    /\ hybrid = <<>>
    /\ metrics = <<>>

\* one caller, one object
NoPair ==
    /\ bound = 1
    /\ other = <<>>

\* lines 51-60: an object as __init__ leaves it, no call made on it yet
Constructed ==
    /\ constructor = "returned"
    /\ length \in 1..MaxLength
    /\ order \in 1..MaxOrder
    /\ adaptive_mode \in BOOLEAN
    /\ adaptive_smooth \in (IF adaptive_mode THEN 1..MaxSmooth ELSE {1})
    /\ adaptive_smooth_mode \in (IF adaptive_mode THEN SmoothMode ELSE {MEDIAN})
    /\ L = [s \in 1..order |-> <<Zero, Zero>>]
    /\ ema_buffer = <<Zero, Zero>>
    /\ ema_initialized = FALSE
    /\ calls = 0
    /\ steps = 0
    /\ prices = <<>>
    /\ i = 0
    /\ laguerre = <<>>
    /\ trend = <<>>
    /\ gamma_values = <<>>
    /\ diff = <<>>
    /\ raw = <<>>
    /\ result = <<>>
    /\ error = ""

Init == SingleIdle /\ Constructed /\ NoPair /\ NoTools

(* ---------------- calculate (lines 62-140) ---------------- *)
\* lines 78-85: a call starts with fresh output arrays; an earlier call has
\* returned the arrays it had filled up to the end of its price list
Calculate ==
    /\ calls < MaxCalls
    /\ calls' = calls + 1
    /\ prices' = <<>>
    /\ i' = 0
    /\ laguerre' = <<>>
    /\ trend' = <<>>
    /\ gamma_values' = <<>>
    /\ diff' = <<>>
    /\ raw' = <<>>
    /\ UNCHANGED <<config, instance, steps, result, error, single, pair, tools>>

\* a further call on the instance, the caller keeping what the call before it
\* was given and returned
CalculateAgain ==
    /\ calls >= 1
    /\ calls < MaxCalls
    /\ result' = <<prices, laguerre>>
    /\ calls' = calls + 1
    /\ prices' = <<>>
    /\ i' = 0
    /\ laguerre' = <<>>
    /\ trend' = <<>>
    /\ gamma_values' = <<>>
    /\ diff' = <<>>
    /\ raw' = <<>>
    /\ UNCHANGED <<config, instance, steps, error, single, pair, tools>>

\* p is the next price of a call that is given the list of the call before it
Replays(p) == IF calls >= 2 /\ i < Len(result[1]) THEN p = result[1][i + 1] ELSE FALSE

\* lines 90-91: the bar is skipped as a whole
Skips(bar, len) == bar < len

\* a warm-up that ends one bar early
EmitsEarly(bar, len) == bar >= 2 * len - 1

\* lines 98-99: the bar is past the warm-up and gets an output
Emits(bar, len) == bar >= 2 * len

\* a fixed gamma from the plain EMA formula
FixedGammaEma(len) == RNorm(2, len + 1)

\* line 121
FixedGamma(len) == RNorm(10, len + 9)

\* The bars before 2 * length are never read: line 95 reads prices[i] only
\* when laguerre[i-1] is defined.  The price lists enumerated keep this
\* lead-in flat at 1, and are free from there on.
LeadIn(p) == p = One

\* line 95
DiffAt(price, lag, bar) ==
    IF ~IsNaN(At(lag, bar - 1)) THEN RAbs(RSub(price, At(lag, bar - 1))) ELSE Zero

\* lines 90-91: an iteration with i < length
SkipBar(p) ==
    /\ calls >= 1
    /\ i < MaxBars
    /\ Skips(i, length)
    /\ LeadIn(p)
    /\ prices' = Append(prices, p)
    /\ i' = i + 1
    /\ laguerre' = Append(laguerre, NaN)
    /\ trend' = Append(trend, 0)
    /\ gamma_values' = Append(gamma_values, NaN)
    /\ diff' = Append(diff, NaN)
    /\ raw' = Append(raw, NaN)
    /\ UNCHANGED <<config, instance, calls, steps, result, error, single, pair, tools>>

\* lines 94-99: an iteration with length <= i < 2 * length
WarmupBar(p) ==
    /\ calls >= 1
    /\ i < MaxBars
    /\ ~Skips(i, length)
    /\ ~Emits(i, length)
    /\ LeadIn(p)
    /\ prices' = Append(prices, p)
    /\ i' = i + 1
    /\ laguerre' = Append(laguerre, NaN)
    /\ trend' = Append(trend, 0)
    /\ gamma_values' = Append(gamma_values, NaN)
    /\ diff' = Append(diff, IF i > 0 THEN DiffAt(p, laguerre, i) ELSE NaN)
    /\ raw' = Append(raw, NaN)
    /\ UNCHANGED <<config, instance, calls, steps, result, error, single, pair, tools>>

\* lines 107-116: the smoothed gamma of an adaptive step
SmoothedGamma(eff, buf, init) ==
    IF adaptive_smooth_mode = SMA THEN sma(gamma_values, adaptive_smooth, i)
    ELSE IF adaptive_smooth_mode = EMA
         THEN ema_state(buf, init, eff, adaptive_smooth)[1]
    ELSE IF adaptive_smooth_mode = WILDER
         THEN ema_state(buf, init, eff, 2 * adaptive_smooth - 1)[1]
    ELSE IF adaptive_smooth_mode = LWMA THEN lwma(gamma_values, adaptive_smooth, i)
    ELSE median(gamma_values, adaptive_smooth, i)

\* lines 128-134
TrendAt(lagNew, bar, len, tr) ==
    IF bar > len + 2 /\ bar > 0
       /\ ~IsNaN(At(lagNew, bar - 1)) /\ RLess(Zero, At(lagNew, bar - 1))
    THEN IF RLess(At(lagNew, bar - 1), At(lagNew, bar)) THEN 1
         ELSE IF RLess(At(lagNew, bar), At(lagNew, bar - 1)) THEN 2
         ELSE At(tr, bar - 1)
    ELSE 0

\* A run is followed as long as its exact values stay within 32-bit integers:
\* the stage values a step starts from have denominators up to
\* MaxDenominator, and the denominators a step with gamma g can produce from
\* them stay below MaxMagnitude.
Fits(x) == x[2] <= MaxDenominator

\* b^e <= cap, for b >= 1
RECURSIVE PowFits(_, _, _)
PowFits(b, e, cap) == IF e = 0 THEN cap >= 1 ELSE PowFits(b, e - 1, cap \div b)

RECURSIVE MaxDen(_, _)
MaxDen(Lold, s) ==
    IF s = 0 THEN 1
    ELSE LET m == MaxDen(Lold, s - 1)
         IN  IF Lold[s][1][2] > m THEN Lold[s][1][2] ELSE m

StepFits(g, Lold, ord) ==
    /\ g[2] <= MaxDenominator
    /\ IF IsNaN(g) THEN TRUE
       ELSE PowFits(g[2], ord, MaxMagnitude \div MaxDen(Lold, ord))

\* lines 94-134: an iteration with i >= 2 * length
StepBar(p) ==
    /\ calls >= 1
    /\ i < MaxBars
    /\ steps < MaxSteps
    /\ ~Skips(i, length)
    /\ Emits(i, length)
    /\ \A s \in 1..order : Fits(L[s][1])
    /\ prices' = Append(prices, p)
    /\ diff' = Append(diff, IF i > 0 THEN DiffAt(p, laguerre, i) ELSE NaN)
    /\ raw' = Append(raw, IF adaptive_mode
                          THEN calculate_adaptive_gamma(diff', i, length)
                          ELSE NaN)
    /\ gamma_values' = Append(gamma_values,
                              IF adaptive_mode
                              THEN SmoothedGamma(raw'[i + 1], ema_buffer, ema_initialized)
                              ELSE FixedGamma(length))
    /\ StepFits(gamma_values'[i + 1], L, order)
    /\ IF adaptive_mode /\ adaptive_smooth_mode \in {EMA, WILDER}
       THEN /\ ema_buffer' = <<gamma_values'[i + 1], gamma_values'[i + 1]>>
            /\ ema_initialized' = TRUE
       ELSE UNCHANGED <<ema_buffer, ema_initialized>>
    /\ L' = LaguerreState(L, p, gamma_values'[i + 1], i, order)
    /\ laguerre' = Append(laguerre, LaguerreValue(L', order))
    /\ trend' = Append(trend, TrendAt(laguerre', i, length, trend))
    /\ i' = i + 1
    /\ steps' = steps + 1
    /\ UNCHANGED <<config, calls, result, error, single, pair, tools>>

Next ==
    \/ Calculate
    \/ \E p \in Prices : SkipBar(RInt(p))
    \/ \E p \in Prices : WarmupBar(RInt(p))
    \/ \E p \in Prices : StepBar(RInt(p))

Spec == Init /\ [][Next]_vars

\* The constructor on its own, called with any arguments: valid ones and the
\* integers and mode numbers a FilterConfig excludes.
Invalid == {-1, 0}
UnknownModes == {5}

\* no AdaptiveLaguerreFilter exists
FilterIdle ==
    /\ constructor = "idle"
    /\ length = 0
    /\ order = 0
    /\ adaptive_mode = FALSE
    /\ adaptive_smooth = 0
    /\ adaptive_smooth_mode = 0
    /\ L = <<>>
    /\ ema_buffer = <<>>
    /\ ema_initialized = FALSE
    /\ calls = 0
    /\ steps = 0
    /\ prices = <<>>
    /\ i = 0
    /\ laguerre = <<>>
    /\ trend = <<>>
    /\ gamma_values = <<>>
    /\ diff = <<>>
    /\ raw = <<>>
    /\ result = <<>>
    /\ error = ""

ConstructInit == FilterIdle /\ SingleIdle /\ NoPair /\ NoTools

\* __init__, lines 51-60: the arguments are stored as they come; np.zeros
\* raises ValueError for a negative dimension and accepts 0
Construct(len, ord, mode, smooth, smooth_mode) ==
    /\ constructor = "idle"
    /\ length' = len
    /\ order' = ord
    /\ adaptive_mode' = mode
    /\ adaptive_smooth' = smooth
    /\ adaptive_smooth_mode' = smooth_mode
    /\ IF ord < 0
       THEN /\ constructor' = "raised"
            /\ UNCHANGED instance
       ELSE /\ constructor' = "returned"
            /\ L' = [s \in 1..ord |-> <<Zero, Zero>>]
            /\ ema_buffer' = <<Zero, Zero>>
            /\ ema_initialized' = FALSE
    /\ UNCHANGED <<calls, steps, locals, result, error, single, pair, tools>>

ConstructNext ==
    \E len \in Invalid \cup 1..MaxLength, ord \in Invalid \cup 1..MaxOrder,
       mode \in BOOLEAN, smooth \in Invalid \cup 1..MaxSmooth,
       smooth_mode \in SmoothMode \cup UnknownModes :
        Construct(len, ord, mode, smooth, smooth_mode)

ConstructSpec == ConstructInit /\ [][ConstructNext]_vars

(* ---- SimpleLaguerreFilter of test_laguerre_simple.py ---- *)
\* The dependency-free class: its stages are self.L, a list of
\* [current, previous] pairs; laguerre holds NaN where the list holds None,
\* gamma_values the gamma of each bar that was stepped.  The attributes and
\* locals the class does not have (adaptive_smooth, adaptive_smooth_mode,
\* ema_buffer, ema_initialized, diff, raw) stay as they start.

\* lines 12-16: an object as __init__ leaves it
SimpleConstructed ==
    /\ constructor = "returned"
    /\ length \in 1..MaxLength
    /\ order \in 1..MaxOrder
    /\ adaptive_mode \in BOOLEAN
    /\ adaptive_smooth = 1
    /\ adaptive_smooth_mode = MEDIAN
    /\ L = [s \in 1..order |-> <<Zero, Zero>>]
    /\ ema_buffer = <<Zero, Zero>>
    /\ ema_initialized = FALSE
    /\ calls = 0
    /\ steps = 0
    /\ prices = <<>>
    /\ i = 0
    /\ laguerre = <<>>
    /\ trend = <<>>
    /\ gamma_values = <<>>
    /\ diff = <<>>
    /\ raw = <<>>
    /\ result = <<>>
    /\ error = ""

\* lines 20-22: a call with a list of its own starts with fresh output lists,
\* on the object as the calls before it left it (line 47 is the first call on
\* simple_filter, lines 116-117 call it on another list before line 129
\* does); what the call before it returned is not kept
SimpleCalculate ==
    /\ calls <= MaxEarlier
    /\ result = <<>>
    /\ error = ""
    /\ calls' = calls + 1
    /\ prices' = <<>>
    /\ i' = 0
    /\ laguerre' = <<>>
    /\ trend' = <<>>
    /\ gamma_values' = <<>>
    /\ UNCHANGED <<config, instance, steps, diff, raw, result, error, single, pair, tools>>

\* line 130 after line 129: a further call on the object once the call before
\* it has returned, the caller keeping what that call was given and returned
SimpleCalculateAgain ==
    /\ calls >= 1
    /\ calls < MaxCalls + MaxEarlier
    /\ error = ""
    /\ result' = <<prices, laguerre>>
    /\ calls' = calls + 1
    /\ prices' = <<>>
    /\ i' = 0
    /\ laguerre' = <<>>
    /\ trend' = <<>>
    /\ gamma_values' = <<>>
    /\ UNCHANGED <<config, instance, steps, diff, raw, error, single, pair, tools>>

\* lines 31-33: prices[i-length:i] of a bar i >= length
RecentPrices(list, bar, len) == Slice(list, bar - len, bar)

\* line 34: avg_price is 0 and the division raises ZeroDivisionError
AverageIsZero(list, bar, len) == Mean(RecentPrices(list, bar, len)) = Zero

\* lines 29-39: the gamma of bar i, for a window whose average is not 0
SimpleGamma(list, bar, len, adaptive) ==
    IF adaptive
    THEN IF bar >= len
         THEN LET recent_prices == RecentPrices(list, bar, len)
                  price_range == RSub(RMax(recent_prices), RMin(recent_prices))
                  avg_price == Mean(recent_prices)
                  x == RMul(RDiv(price_range, avg_price), RInt(10))
                  lo == IF RLess(x, RNorm(1, 100)) THEN RNorm(1, 100) ELSE x
              IN  IF RLess(RNorm(99, 100), lo) THEN RNorm(99, 100) ELSE lo
         ELSE RNorm(1, 2)
    ELSE FixedGamma(len)

\* lines 45-51
SimpleTrendAt(lagNew, bar, tr) ==
    IF bar > 0 /\ ~IsNaN(At(lagNew, bar)) /\ ~IsNaN(At(lagNew, bar - 1))
    THEN IF RLess(At(lagNew, bar - 1), At(lagNew, bar)) THEN 1
         ELSE IF RLess(At(lagNew, bar), At(lagNew, bar - 1)) THEN -1
         ELSE At(tr, bar - 1)
    ELSE 0

\* lines 25-26: an iteration with i < 2 * length.  With a fixed gamma these
\* bars are never read and the lists enumerated keep them flat; the adaptive
\* gamma reads them
SimpleSkipBar(p) ==
    /\ calls >= 1
    /\ error = ""
    /\ i < MaxBars
    /\ i < 2 * length
    /\ adaptive_mode \/ LeadIn(p)
    /\ prices' = Append(prices, p)
    /\ i' = i + 1
    /\ laguerre' = Append(laguerre, NaN)
    /\ trend' = Append(trend, 0)
    /\ gamma_values' = Append(gamma_values, NaN)
    /\ UNCHANGED <<config, instance, calls, steps, diff, raw, result, error, single, pair, tools>>

\* lines 25-51: an iteration with i >= 2 * length
SimpleStepBar(p) ==
    /\ calls >= 1
    /\ error = ""
    /\ i < MaxBars
    /\ steps < MaxSteps
    /\ i >= 2 * length
    /\ ~(adaptive_mode /\ i >= length /\ AverageIsZero(prices, i, length))
    /\ \A s \in 1..order : Fits(L[s][1])
    /\ prices' = Append(prices, p)
    /\ gamma_values' = Append(gamma_values, SimpleGamma(prices, i, length, adaptive_mode))
    /\ StepFits(gamma_values'[i + 1], L, order)
    /\ L' = LaguerreState(L, p, gamma_values'[i + 1], i, order)
    /\ laguerre' = Append(laguerre, SimpleLaguerreValue(L'))
    /\ trend' = Append(trend, SimpleTrendAt(laguerre', i, trend))
    /\ i' = i + 1
    /\ steps' = steps + 1
    /\ UNCHANGED <<config, ema_buffer, ema_initialized, calls, diff, raw, result,
                   error, single, pair, tools>>

\* line 34 at a bar i >= 2 * length whose window averages 0: the call ends
\* with the exception, the object as the bars before left it
SimpleRaise(p) ==
    /\ calls >= 1
    /\ error = ""
    /\ i < MaxBars
    /\ i >= 2 * length
    /\ adaptive_mode /\ i >= length /\ AverageIsZero(prices, i, length)
    /\ prices' = Append(prices, p)
    /\ error' = "ZeroDivisionError"
    /\ UNCHANGED <<config, instance, calls, steps, i, laguerre, trend, gamma_values,
                   diff, raw, result, single, pair, tools>>

\* calculate() called again with the price list of the call before it
\* (results_1, results_2 of test_implementation_comparison.py, lines 129-130),
\* on a new object or after calls with other lists (lines 47, 116-117)
RepeatInit == SingleIdle /\ SimpleConstructed /\ NoPair /\ NoTools

RepeatNext ==
    \/ SimpleCalculate
    \/ \E p \in Prices : result = <<>> /\ SimpleSkipBar(RInt(p))
    \/ \E p \in Prices : result = <<>> /\ SimpleStepBar(RInt(p))
    \/ \E p \in Prices : result = <<>> /\ SimpleRaise(RInt(p))
    \/ SimpleCalculateAgain
    \/ \E p \in Prices : result # <<>> /\ Replays(RInt(p)) /\ SimpleSkipBar(RInt(p))
    \/ \E p \in Prices : result # <<>> /\ Replays(RInt(p)) /\ SimpleStepBar(RInt(p))

RepeatSpec == RepeatInit /\ [][RepeatNext]_vars

(* ---- two objects, calculate() called on either ---- *)
\* attributes held once for the class: a call reads what the last call left
InstanceStateShared(own, last) == last

\* self.L, self.ema_buffer and self.ema_initialized of the object a call
\* binds to self are the attributes __init__ gave that object (lines 58-60)
InstanceState(own, last) == own

\* two objects constructed with the same arguments; the modes taken are the
\* fixed gamma and EMA, whose smoothing keeps state in the object
PairInit ==
    /\ SingleIdle
    /\ Constructed
    /\ adaptive_mode => adaptive_smooth_mode = EMA
    /\ NoTools
    /\ bound = 1
    /\ other = <<L, ema_buffer, ema_initialized>>

\* lines 78-85 of a call on object b; the objects being alike until one is
\* called, the first call is taken to be on object 1
Invoke(b) ==
    /\ calls < MaxCalls
    /\ calls = 0 => b = 1
    /\ calls' = calls + 1
    /\ bound' = b
    /\ IF b = bound
       THEN UNCHANGED <<instance, other>>
       ELSE /\ L' = InstanceState(other, instance)[1]
            /\ ema_buffer' = InstanceState(other, instance)[2]
            /\ ema_initialized' = InstanceState(other, instance)[3]
            /\ other' = instance
    /\ prices' = <<>>
    /\ i' = 0
    /\ laguerre' = <<>>
    /\ trend' = <<>>
    /\ gamma_values' = <<>>
    /\ diff' = <<>>
    /\ raw' = <<>>
    /\ UNCHANGED <<config, steps, result, error, single, tools>>

PairNext ==
    \/ \E b \in 1..2 : Invoke(b)
    \/ \E p \in Prices : SkipBar(RInt(p))
    \/ \E p \in Prices : WarmupBar(RInt(p))
    \/ \E p \in Prices : StepBar(RInt(p))

PairSpec == PairInit /\ [][PairNext]_vars

(* ---- SimpleLaguerreFilter of tests/test_laguerre_filter.py (lines 59-84) ---- *)
\* lines 76-81: the current value of stage s - 1, Lc being the state after the
\* copy of lines 71-72 and gamma / Base the gamma of the call
RECURSIVE SingleStage(_, _, _, _)
SingleStage(Lc, price, gamma, s) ==
    LET gam == Base - gamma
    IN  IF s = 1
        THEN DAdd(DFrac(price, Base - gam), DFrac(Lc[1][2], gam))
        ELSE DAdd(DAdd(DNeg(DFrac(SingleStage(Lc, price, gamma, s - 1), gam)), Lc[s - 1][2]),
                  DFrac(Lc[s][2], gam))

\* lines 68-81: the stage pairs calculate_single(price, gamma) leaves
calculate_single_state(Lold, price, gamma) ==
    LET Lc == [s \in DOMAIN Lold |-> <<Lold[s][1], Lold[s][1]>>]
    IN  [s \in DOMAIN Lold |-> <<SingleStage(Lc, price, gamma, s), Lc[s][2]>>]

RECURSIVE DSum(_, _)
DSum(Lnew, s) == IF s = 0 THEN DZero ELSE DAdd(DSum(Lnew, s - 1), Lnew[s][1])

\* line 84: sum(values) / len(values), kept as the pair of the two
calculate_single_value(Lnew) == <<DSum(Lnew, Len(Lnew)), Len(Lnew)>>

\* lines 61-64
SingleInit ==
    /\ FilterIdle
    /\ NoPair
    /\ NoTools
    /\ single_order \in 1..MaxSingleOrder
    /\ single_length = <<10, 10>>
    /\ single_gamma \in GammaPairs
    /\ single_L = [j \in 1..2 |-> [s \in 1..single_order |-> <<DZero, DZero>>]]
    /\ single_result = <<>>
    /\ single_prices = <<>>

\* The price series enumerated are flat or step up once; the flat ones are
\* followed for MaxSamples samples, the others for StepSamples.
SingleInput(p) ==
    IF single_prices = <<>> THEN TRUE
    ELSE /\ p >= single_prices[Len(single_prices)]
         /\ Len(single_prices) >= StepSamples => p = single_prices[1]

\* one price handed to calculate_single of both instances
Feed(p) ==
    /\ single_order >= 1
    /\ Len(single_prices) < MaxSamples
    /\ SingleInput(p)
    /\ single_prices' = Append(single_prices, p)
    /\ single_L' = [j \in DOMAIN single_L |->
                        calculate_single_state(single_L[j], DInt(p), single_gamma[j])]
    /\ single_result' = [j \in DOMAIN single_L |-> calculate_single_value(single_L'[j])]
    /\ UNCHANGED <<single_order, single_length, single_gamma, filter, pair, tools>>

SingleNext == \E p \in SinglePrices : Feed(p)

SingleSpec == SingleInit /\ [][SingleNext]_vars

\* test_parameter_sensitivity, lines 548-557: filters of length 5, 10 and 20
\* stepped with gamma 0.5 over one and the same series
Lengths == <<5, 10, 20>>

LengthInit ==
    /\ FilterIdle
    /\ NoPair
    /\ NoTools
    /\ single_order \in 1..MaxSingleOrder
    /\ single_length = Lengths
    /\ single_gamma = [j \in DOMAIN Lengths |-> 5000]
    /\ single_L = [j \in DOMAIN Lengths |-> [s \in 1..single_order |-> <<DZero, DZero>>]]
    /\ single_result = <<>>
    /\ single_prices = <<>>

LengthNext == \E p \in SinglePrices : Len(single_prices) < MaxSeries /\ Feed(p)

LengthSpec == LengthInit /\ [][LengthNext]_vars

(* ---- optimization adapters (src/src/tools/optimization_adapter.py) ---- *)
\* float('-inf'): a float <<n, 0>> is not finite, NaN being <<0, 0>>
NegInf == <<-1, 0>>

\* a > b on floats
FGreater(a, b) ==
    IF a = NaN \/ b = NaN THEN FALSE
    ELSE IF b = NegInf THEN a # NegInf
    ELSE IF a = NegInf THEN FALSE
    ELSE RLess(b, a)

\* a parameter set {'x': x, 'y': y} is the pair <<x, y>>, None is <<>>
Params == Values \X Values
None == <<>>

\* the floats an objective function returns: the finite scores, -inf and NaN
Floats == {RInt(score) : score \in Scores} \cup {NegInf, NaN}

\* the objective functions: a float for every parameter set
Objectives == [Params -> Floats]

\* the objective functions of finite scores
FiniteObjectives == [Params -> {RInt(score) : score \in Scores}]

\* the lists of values a grid gives a parameter
Lists == UNION {[1..n -> Values] : n \in 0..MaxList}

\* the space {'x': (min, max), 'y': (min, max)} of integer ranges that holds Values
FullSpace ==
    LET lo == CHOOSE v \in Values : \A w \in Values : v <= w
        hi == CHOOSE v \in Values : \A w \in Values : w <= v
    IN  <<<<lo, hi>>, <<lo, hi>>>>

\* lines 174-186, 310-321, 443-451: the parameter sets random.randint(min_val,
\* max_val) can draw from a space of integer ranges
Sample(param_space) ==
    (param_space[1][1]..param_space[1][2]) \X (param_space[2][1]..param_space[2][2])

\* list(product(xs, ys)), the last parameter varying fastest
product(xs, ys) ==
    [k \in 1..(Len(xs) * Len(ys)) |->
        <<xs[((k - 1) \div Len(ys)) + 1], ys[((k - 1) % Len(ys)) + 1]>>]

\* lines 40-52: an adapter as __init__ leaves it, method being what get_name()
\* of its class returns; the fields after convergence_history are the locals
\* of the optimize() call running on it
Adapter(method, objective_function) ==
    [pc |-> "idle", method |-> method, objective_function |-> objective_function,
     runs |-> 0,             \* the optimize() calls started on the adapter
     iteration_count |-> 0, convergence_history |-> <<>>,
     param_space |-> <<>>, combinations |-> <<>>, n_iter |-> 0, n_initial |-> 0, i |-> 0,
     best_score |-> NegInf, best_params |-> None,
     population |-> <<>>, generations |-> 0, elite_size |-> 0, gen |-> 0,
     fitness_scores |-> <<>>,
     evaluated |-> <<>>,     \* the parameter sets handed to _evaluate, in order
     returned |-> <<>>]      \* the OptimizationResult of the call

\* no adapter has been created
NoAdapter == [pc |-> "none", method |-> "none", runs |-> 0]

\* no HybridOptimizer exists
NoHybrid == [pc |-> "none"]

\* optimize() can be called on the adapter: no call is running on it
Callable(o, method) ==
    /\ o.method = method
    /\ o.pc \in {"idle", "returned", "raised"}
    /\ o.runs < MaxRuns

\* lines 95-96, 162-163, 241-242, 400-401: optimize() resets iteration_count
\* and convergence_history; its locals start afresh
Entered(o, param_space) ==
    [Adapter(o.method, o.objective_function) EXCEPT
        !.pc = "loop", !.runs = o.runs + 1, !.param_space = param_space]

\* lines 69-81: the score _evaluate returns for a parameter set
Score(o, params) == o.objective_function[params]

\* lines 69-81: _evaluate counts the call
evaluate(o, params) ==
    [o EXCEPT !.iteration_count = @ + 1, !.evaluated = Append(@, params)]

\* _evaluate and the append to convergence_history that follows it in the
\* loops of lines 111-115, 188-189, 410-414, 420-425
Evaluate(o, params) ==
    [evaluate(o, params) EXCEPT
        !.convergence_history = Append(@, Score(o, params)), !.i = @ + 1]

\* lines 117-120 and 191-194: if score > best_score
KeepBest(o, params) ==
    IF FGreater(Score(o, params), o.best_score)
    THEN [o EXCEPT !.best_score = Score(o, params), !.best_params = params]
    ELSE o

\* lines 127-134, 201-208, 301-308, 434-441 (metrics, the dict {name: score}
\* of the best evaluation, is left out)
OptimizationResult(parameters, score, o) ==
    [parameters |-> parameters, score |-> score, method |-> o.method,
     iterations |-> o.iteration_count, convergence_history |-> o.convergence_history]

\* an adapter of one of the classes named has been constructed on one of the
\* objective functions
AdapterInit(methods, objectives) ==
    /\ FilterIdle
    /\ SingleIdle
    /\ NoPair
    /\ metrics = <<>>
    /\ hybrid = NoHybrid
    /\ \E method \in methods, f \in objectives : optimizer = Adapter(method, f)

\* GridSearchAdapter.optimize, lines 95-109
GridOptimize(xs, ys) ==
    /\ Callable(optimizer, "grid_search")
    /\ optimizer' = [Entered(optimizer, <<xs, ys>>) EXCEPT !.combinations = product(xs, ys)]
    /\ UNCHANGED <<filter, single, pair, hybrid, metrics>>

\* lines 111-125: one iteration of the loop over the combinations
GridIterate ==
    /\ optimizer.method = "grid_search"
    /\ optimizer.pc = "loop"
    /\ optimizer.i < Len(optimizer.combinations)
    /\ optimizer' = Evaluate(KeepBest(optimizer, optimizer.combinations[optimizer.i + 1]),
                             optimizer.combinations[optimizer.i + 1])
    /\ UNCHANGED <<filter, single, pair, hybrid, metrics>>

\* lines 127-134
GridReturn ==
    /\ optimizer.method = "grid_search"
    /\ optimizer.pc = "loop"
    /\ optimizer.i = Len(optimizer.combinations)
    /\ optimizer' = [optimizer EXCEPT
           !.pc = "returned",
           !.returned = OptimizationResult(optimizer.best_params, optimizer.best_score, optimizer)]
    /\ UNCHANGED <<filter, single, pair, hybrid, metrics>>

\* RandomSearchAdapter.optimize, lines 162-170
RandomOptimize(param_space, n_iter) ==
    /\ Callable(optimizer, "random_search")
    /\ optimizer' = [Entered(optimizer, param_space) EXCEPT !.n_iter = n_iter]
    /\ UNCHANGED <<filter, single, pair, hybrid, metrics>>

\* lines 172-199: one iteration, params being the random sample it draws
RandomIterate ==
    /\ optimizer.method = "random_search"
    /\ optimizer.pc = "loop"
    /\ optimizer.i < optimizer.n_iter
    /\ \E params \in Sample(optimizer.param_space) :
          optimizer' = Evaluate(KeepBest(optimizer, params), params)
    /\ UNCHANGED <<filter, single, pair, hybrid, metrics>>

\* lines 201-208
RandomReturn ==
    /\ optimizer.method = "random_search"
    /\ optimizer.pc = "loop"
    /\ optimizer.i = optimizer.n_iter
    /\ optimizer' = [optimizer EXCEPT
           !.pc = "returned",
           !.returned = OptimizationResult(optimizer.best_params, optimizer.best_score, optimizer)]
    /\ UNCHANGED <<filter, single, pair, hybrid, metrics>>

\* the calls a caller makes on a GridSearchAdapter or a RandomSearchAdapter,
\* optimize() again on an adapter whose call has returned included
SearchInit == AdapterInit({"grid_search", "random_search"}, Objectives)

SearchNext ==
    \/ \E xs \in Lists, ys \in Lists : GridOptimize(xs, ys)
    \/ GridIterate
    \/ GridReturn
    \/ \E n_iter \in 0..MaxIter : RandomOptimize(FullSpace, n_iter)
    \/ RandomIterate
    \/ RandomReturn

SearchSpec == SearchInit /\ [][SearchNext]_vars

(* ---- GeneticAlgorithmAdapter (lines 217-376) ---- *)
\* max(key=...), np.argmax: the first position no other position has a
\* greater score than
FirstBest(history) ==
    CHOOSE k \in DOMAIN history :
        /\ \A j \in DOMAIN history : ~FGreater(history[j], history[k])
        /\ \A j \in 1..(k - 1) : FGreater(history[k], history[j])

\* lines 327-328: the positions of the population by descending fitness,
\* positions of equal fitness in the order of the population
sorted_pop(fitness) ==
    [r \in DOMAIN fitness |->
        CHOOSE k \in DOMAIN fitness :
            Cardinality({j \in DOMAIN fitness :
                            \/ FGreater(fitness[j], fitness[k])
                            \/ fitness[j] = fitness[k] /\ j < k}) = r - 1]

\* line 334
tournament_size == 3

\* lines 335-339: the positions that can win a tournament, the greatest
\* fitness among min(tournament_size, len(population)) positions sampled
Winners(fitness) ==
    {k \in DOMAIN fitness :
        Cardinality({j \in DOMAIN fitness : ~FGreater(fitness[j], fitness[k])})
            >= (IF Len(fitness) < tournament_size THEN Len(fitness) ELSE tournament_size)}

\* lines 357-361: what random.randint(-range_size // 10, range_size // 10)
\* adds to a gene, 0 when the gene is not mutated
Mutations(range) == ((range[1] - range[2]) \div 10)..((range[2] - range[1]) \div 10)

\* max(min_val, min(max_val, v))
Clamp(v, range) ==
    LET low == IF range[2] < v THEN range[2] ELSE v
    IN  IF low < range[1] THEN range[1] ELSE low

\* lines 353-370: the individuals _mutate can return, the individual itself
\* when no gene is mutated
mutate(individual, param_space) ==
    {<<Clamp(individual[1] + m1, param_space[1]), Clamp(individual[2] + m2, param_space[2])>> :
        m1 \in Mutations(param_space[1]), m2 \in Mutations(param_space[2])}

\* lines 286-297: a child is a copy of a parent or takes each gene from one
\* of two parents (_crossover, lines 343-351), and is then mutated or not
Offspring(parents, param_space) ==
    UNION {mutate(<<p[1], q[2]>>, param_space) : p \in parents, q \in parents}

\* lines 237-252: population is what _initialize_population (lines 310-321)
\* drew; mutation_rate and crossover_rate keep their defaults, which are
\* strictly between 0 and 1
GeneticOptimize(param_space, generations, elite_size, population) ==
    /\ Callable(optimizer, "genetic_algorithm")
    /\ optimizer' = [Entered(optimizer, param_space) EXCEPT
                        !.population = population, !.generations = generations,
                        !.elite_size = elite_size]
    /\ UNCHANGED <<filter, single, pair, hybrid, metrics>>

\* lines 259-262: one iteration of 'for individual in population'
GeneticEvaluate ==
    /\ optimizer.method = "genetic_algorithm"
    /\ optimizer.pc = "loop"
    /\ optimizer.gen < optimizer.generations
    /\ optimizer.i < Len(optimizer.population)
    /\ optimizer' =
          [evaluate(optimizer, optimizer.population[optimizer.i + 1]) EXCEPT
              !.fitness_scores = Append(@, Score(optimizer, optimizer.population[optimizer.i + 1])),
              !.i = @ + 1]
    /\ UNCHANGED <<filter, single, pair, hybrid, metrics>>

\* line 265: np.argmax raises ValueError on the empty list of an empty population
GeneticRaise ==
    /\ optimizer.method = "genetic_algorithm"
    /\ optimizer.pc = "loop"
    /\ optimizer.gen < optimizer.generations
    /\ optimizer.population = <<>>
    /\ optimizer' = [optimizer EXCEPT !.pc = "raised"]
    /\ UNCHANGED <<filter, single, pair, hybrid, metrics>>

\* lines 265-299: the generation's best is recorded, and the next population
\* is the elite followed by children of the parents _selection (lines
\* 322-340) returns: the elite and the winners of the tournaments
GeneticBreed ==
    /\ optimizer.method = "genetic_algorithm"
    /\ optimizer.pc = "loop"
    /\ optimizer.gen < optimizer.generations
    /\ optimizer.population # <<>>
    /\ optimizer.i = Len(optimizer.population)
    /\ LET population == optimizer.population
           fitness_scores == optimizer.fitness_scores
           best_idx == FirstBest(fitness_scores)
           kept == IF optimizer.elite_size < Len(population)
                   THEN optimizer.elite_size ELSE Len(population)
           elite == [r \in 1..kept |-> population[sorted_pop(fitness_scores)[r]]]
       IN  \E winners \in [1..(Len(population) - kept) -> Winners(fitness_scores)] :
           \E children \in [1..(Len(population) - kept) ->
                               Offspring({elite[r] : r \in 1..kept}
                                             \cup {population[winners[k]] : k \in DOMAIN winners},
                                         optimizer.param_space)] :
              optimizer' = [optimizer EXCEPT
                  !.convergence_history = Append(@, fitness_scores[best_idx]),
                  !.best_score = IF FGreater(fitness_scores[best_idx], @)
                                 THEN fitness_scores[best_idx] ELSE @,
                  !.best_params = IF FGreater(fitness_scores[best_idx], optimizer.best_score)
                                  THEN population[best_idx] ELSE @,
                  !.population = elite \o children,
                  !.fitness_scores = <<>>,
                  !.i = 0,
                  !.gen = @ + 1]
    /\ UNCHANGED <<filter, single, pair, hybrid, metrics>>

\* lines 301-308
GeneticReturn ==
    /\ optimizer.method = "genetic_algorithm"
    /\ optimizer.pc = "loop"
    /\ optimizer.gen = optimizer.generations
    /\ optimizer' = [optimizer EXCEPT
           !.pc = "returned",
           !.returned = OptimizationResult(optimizer.best_params, optimizer.best_score, optimizer)]
    /\ UNCHANGED <<filter, single, pair, hybrid, metrics>>

\* The objectives taken give finite scores: sorted() and np.argmax on scores
\* that hold NaN are not modelled.
GeneticInit == AdapterInit({"genetic_algorithm"}, FiniteObjectives)

GeneticNext ==
    \/ \E generations \in 0..MaxGenerations, elite_size \in 0..MaxPopulation,
          population_size \in 0..MaxPopulation :
          \E population \in [1..population_size -> Sample(FullSpace)] :
             GeneticOptimize(FullSpace, generations, elite_size, population)
    \/ GeneticEvaluate
    \/ GeneticRaise
    \/ GeneticBreed
    \/ GeneticReturn

GeneticSpec == GeneticInit /\ [][GeneticNext]_vars

(* ---- BayesianOptimizationAdapter (lines 379-499) ---- *)
\* lines 400-407
BayesianOptimize(param_space, n_iter, n_initial) ==
    /\ Callable(optimizer, "bayesian_optimization")
    /\ optimizer' = [Entered(optimizer, param_space) EXCEPT
                        !.n_iter = n_iter, !.n_initial = n_initial]
    /\ UNCHANGED <<filter, single, pair, hybrid, metrics>>

\* lines 410-414: one iteration of 'for i in range(n_initial)', params being
\* the random sample; observations is <<evaluated, convergence_history>>
BayesianInitial ==
    /\ optimizer.method = "bayesian_optimization"
    /\ optimizer.pc = "loop"
    /\ optimizer.i < optimizer.n_initial
    /\ \E params \in Sample(optimizer.param_space) :
          optimizer' = Evaluate(optimizer, params)
    /\ UNCHANGED <<filter, single, pair, hybrid, metrics>>

\* lines 484-493: the square of _parameter_distance, which the comparisons
\* of distances need
DistanceSquared(params1, params2, param_space) ==
    LET Part(k) == IF param_space[k][2] - param_space[k][1] > 0
                   THEN RNorm((params1[k] - params2[k]) * (params1[k] - params2[k]),
                              (param_space[k][2] - param_space[k][1])
                                  * (param_space[k][2] - param_space[k][1]))
                   ELSE Zero
    IN  RAdd(Part(1), Part(2))

\* lines 469-472: the square of min_distance of a candidate
MinDistanceSquared(candidate, observed, param_space) ==
    RMin([k \in DOMAIN observed |-> DistanceSquared(candidate, observed[k], param_space)])

\* line 462
n_candidates == 100

\* lines 465-466: the points the n_candidates random samples of one call can
\* hold between them, every point of the space being a possible draw of each
\* sample
Candidates(param_space) ==
    {drawn \in SUBSET Sample(param_space) :
        drawn # {} /\ Cardinality(drawn) <= n_candidates}

\* lines 468-482: max(candidates, key=score_estimate) with score_estimate =
\* best_score + 2.0 * min_distance returns the first candidate no other one
\* is farther from the observed points than; the samples come in any order,
\* so each of the farthest candidates can be the first
Acquired(observed, param_space, candidates) ==
    {c \in candidates :
        \A d \in candidates :
            RLeq(MinDistanceSquared(d, observed, param_space),
                 MinDistanceSquared(c, observed, param_space))}

\* lines 420-425: one iteration of 'for i in range(n_initial, n_iter)'.
\* _acquisition_function takes max() of the observed scores (line 459), which
\* raises ValueError when there is no observation.
BayesianAcquire ==
    /\ optimizer.method = "bayesian_optimization"
    /\ optimizer.pc = "loop"
    /\ optimizer.i >= optimizer.n_initial
    /\ optimizer.i < optimizer.n_iter
    /\ IF optimizer.evaluated = <<>>
       THEN optimizer' = [optimizer EXCEPT !.pc = "raised"]
       ELSE \E candidates \in Candidates(optimizer.param_space) :
               \E params \in Acquired(optimizer.evaluated, optimizer.param_space, candidates) :
                   optimizer' = Evaluate(optimizer, params)
    /\ UNCHANGED <<filter, single, pair, hybrid, metrics>>

\* lines 432-441: max() raises ValueError when nothing has been observed
BayesianReturn ==
    /\ optimizer.method = "bayesian_optimization"
    /\ optimizer.pc = "loop"
    /\ optimizer.i >= optimizer.n_initial
    /\ optimizer.i >= optimizer.n_iter
    /\ optimizer' =
          IF optimizer.evaluated = <<>>
          THEN [optimizer EXCEPT !.pc = "raised"]
          ELSE [optimizer EXCEPT
                   !.pc = "returned",
                   !.returned = OptimizationResult(
                       optimizer.evaluated[FirstBest(optimizer.convergence_history)],
                       optimizer.convergence_history[FirstBest(optimizer.convergence_history)],
                       optimizer)]
    /\ UNCHANGED <<filter, single, pair, hybrid, metrics>>

\* The objectives taken give finite scores: max() over observations that
\* hold NaN is not modelled.
BayesianInit == AdapterInit({"bayesian_optimization"}, FiniteObjectives)

BayesianNext ==
    \/ \E n_iter \in 0..MaxIter, n_initial \in 0..MaxIter :
          BayesianOptimize(FullSpace, n_iter, n_initial)
    \/ BayesianInitial
    \/ BayesianAcquire
    \/ BayesianReturn

BayesianSpec == BayesianInit /\ [][BayesianNext]_vars

(* ---- OptimizationFactory (lines 502-532) and MetricFactory ---- *)
\* Both factories keep a dict name -> class, modelled as the sequence of its
\* items <<name, class>> in the order of insertion.
\* metric_name in cls._metrics, method_name in cls._methods
Registered(registry, metric_name) == \E k \in DOMAIN registry : registry[k][1] = metric_name

\* cls._metrics[metric_name], cls._methods[method_name]
ClassOf(registry, metric_name) ==
    registry[CHOOSE k \in DOMAIN registry : registry[k][1] = metric_name][2]

\* cls._metrics[name] = metric_class, cls._methods[name] = method_class
SetItem(registry, name, metric_class) ==
    IF Registered(registry, name)
    THEN [k \in DOMAIN registry |->
            IF registry[k][1] = name THEN <<name, metric_class>> ELSE registry[k]]
    ELSE Append(registry, <<name, metric_class>>)

\* OptimizationFactory._methods, lines 505-510
Methods ==
    <<<<"grid_search", "GridSearchAdapter">>, <<"random_search", "RandomSearchAdapter">>,
      <<"genetic_algorithm", "GeneticAlgorithmAdapter">>,
      <<"bayesian_optimization", "BayesianOptimizationAdapter">>>>

\* the classes issubclass(method_class, OptimizationAdapter) holds for
OptimizationAdapters == {Methods[k][2] : k \in DOMAIN Methods}

\* get_name of the adapter classes, lines 136-137, 210-211, 372-373, 495-496
get_name(method_class) ==
    CASE method_class = "GridSearchAdapter" -> "grid_search"
      [] method_class = "RandomSearchAdapter" -> "random_search"
      [] method_class = "GeneticAlgorithmAdapter" -> "genetic_algorithm"
      [] method_class = "BayesianOptimizationAdapter" -> "bayesian_optimization"

\* the keyword parameters of optimize() of the adapter classes, lines 87,
\* 146-147, 220-223, 382-384
Keywords(method) ==
    CASE method = "grid_search" -> {"verbose"}
      [] method = "random_search" -> {"n_iter", "verbose", "seed"}
      [] method = "genetic_algorithm" ->
            {"population_size", "generations", "mutation_rate", "crossover_rate",
             "elite_size", "verbose", "seed"}
      [] method = "bayesian_optimization" -> {"n_iter", "n_initial", "verbose", "seed"}

\* OptimizationFactory as the import leaves it; registered counts the calls
\* of register(), error is what the last of them raised
Factory == [methods |-> Methods, registered |-> 0, error |-> ""]

(* ---- HybridOptimizer (lines 535-624) ---- *)
\* The lists of method names explored: every phase of a list is given the
\* same keyword arguments, so a list of several classes runs some of them with
\* their defaults (n_iter = 100, population_size = 50, generations = 20, as
\* does the default list, random_search then genetic_algorithm); the lists
\* here name one class, or a name the factory does not know at import.
HybridMethods ==
    UNION {[1..n -> {Methods[m][1], "unknown"}] : m \in DOMAIN Methods, n \in 1..MaxPhases}

\* what register() is given: a name the factory does not know or one it
\* knows, with an adapter class or a class that is no OptimizationAdapter
MethodNames == {"unknown", "random_search"}
MethodClasses == {"GridSearchAdapter", "object"}

\* the keyword arguments a class takes, all of them given
KwargsOf(methods) ==
    IF "random_search" \in methods
    THEN {[n_iter |-> n] : n \in 0..MaxPhaseIter}
    ELSE IF "bayesian_optimization" \in methods
    THEN {[n_iter |-> n, n_initial |-> m] : n \in 0..MaxPhaseIter, m \in 0..MaxPhaseIter}
    ELSE IF "genetic_algorithm" \in methods
    THEN {[population_size |-> n, generations |-> g, elite_size |-> e] :
             n \in 0..MaxPhaseIter, g \in 0..MaxPhaseIter, e \in 0..MaxPhaseIter}
    ELSE {[verbose |-> FALSE]}

\* the classes the factory creates for the names of a list
Created(methods, registry) ==
    {get_name(ClassOf(registry, methods[k])) :
        k \in {j \in DOMAIN methods : Registered(registry, methods[j])}}

\* the keyword arguments given to optimize(): those of the class a list
\* names, or those of the classes the factory creates for it
Kwargs(methods, registry) ==
    KwargsOf({methods[k] : k \in DOMAIN methods}) \cup KwargsOf(Created(methods, registry))

\* lines 538-549: a HybridOptimizer as __init__ leaves it; the fields after
\* convergence_history are the locals of the optimize() call running on it
HybridOptimizer(objective_function, methods, factory) ==
    [pc |-> "idle", objective_function |-> objective_function, methods |-> methods,
     factory |-> factory,    \* OptimizationFactory, which create() reads
     runs |-> 0,
     iteration_count |-> 0, convergence_history |-> <<>>,
     discrete |-> FALSE,     \* param_space gives lists (a grid), not (min, max) tuples
     param_space |-> <<>>, kwargs |-> <<>>,
     best_result |-> None, all_results |-> <<>>,
     returned |-> <<>>]

HybridInit ==
    /\ FilterIdle
    /\ SingleIdle
    /\ NoPair
    /\ metrics = <<>>
    /\ optimizer = NoAdapter
    /\ \E f \in FiniteObjectives, methods \in HybridMethods :
          hybrid = HybridOptimizer(f, methods, Factory)

\* OptimizationFactory.register, lines 527-532, called while no optimize()
\* is running
HybridRegister(name, method_class) ==
    /\ hybrid.pc \in {"idle", "returned", "raised"}
    /\ hybrid.factory.registered < MaxRegistered
    /\ hybrid' =
          IF method_class \notin OptimizationAdapters
          THEN [hybrid EXCEPT !.factory.registered = @ + 1, !.factory.error = "TypeError"]
          ELSE [hybrid EXCEPT !.factory.registered = @ + 1, !.factory.error = "",
                              !.factory.methods = SetItem(@, name, method_class)]
    /\ UNCHANGED <<filter, single, pair, optimizer, metrics>>

\* optimize() can be called on the HybridOptimizer: no call is running on it
HybridCallable == hybrid.pc \in {"idle", "returned", "raised"} /\ hybrid.runs < MaxRuns

\* lines 551-560
HybridOptimize(param_space, discrete, kwargs) ==
    /\ HybridCallable
    /\ hybrid' = [HybridOptimizer(hybrid.objective_function, hybrid.methods,
                                   hybrid.factory) EXCEPT
                     !.pc = "phase", !.runs = hybrid.runs + 1,
                     !.param_space = param_space, !.discrete = discrete, !.kwargs = kwargs]
    /\ optimizer' = NoAdapter
    /\ UNCHANGED <<filter, single, pair, metrics>>

\* int(), which drops the fraction of a positive or a negative number
Trunc(x) == IF x[1] < 0 THEN -((-x[1]) \div x[2]) ELSE x[1] \div x[2]

\* lines 603-611: a (min, max) range narrowed to 30% of its size around the
\* best value.  0.3 is taken as 3/10: the two agree wherever best_val +-
\* margin is not a whole number, as with the ranges of Values.
RefineRange(range, best_val) ==
    LET margin == RMul(RInt(range[2] - range[1]), RNorm(3, 10))
        below == RSub(RInt(best_val), margin)
        above == RAdd(RInt(best_val), margin)
        new_min == IF RLess(below, RInt(range[1])) THEN RInt(range[1]) ELSE below
        new_max == IF RLess(RInt(range[2]), above) THEN RInt(range[2]) ELSE above
    IN  <<Trunc(new_min), Trunc(new_max)>>

\* lines 596-618: lists are kept as they are.  A grid search takes a (min,
\* max) tuple as the list of its two values.
refine_search_space(param_space, discrete, best_params) ==
    IF discrete THEN param_space
    ELSE <<RefineRange(param_space[1], best_params[1]),
           RefineRange(param_space[2], best_params[2])>>

\* lines 566-575: the phase's adapter is created and the space refined.
\* OptimizationFactory.create (lines 512-520) raises ValueError for a name it
\* does not know; line 603 raises TypeError on the parameters None of a best
\* result no evaluation stands behind.
HybridCreate ==
    /\ hybrid.pc = "phase"
    /\ Len(hybrid.all_results) < Len(hybrid.methods)
    /\ LET method_name == hybrid.methods[Len(hybrid.all_results) + 1]
           method == get_name(ClassOf(hybrid.factory.methods, method_name))
       IN  IF ~Registered(hybrid.factory.methods, method_name)
           THEN hybrid' = [hybrid EXCEPT !.pc = "raised"] /\ UNCHANGED optimizer
           ELSE IF hybrid.all_results = <<>>
           THEN /\ hybrid' = [hybrid EXCEPT !.pc = "run"]
                /\ optimizer' = Adapter(method, hybrid.objective_function)
           ELSE IF ~hybrid.discrete /\ hybrid.best_result.parameters = None
           THEN /\ hybrid' = [hybrid EXCEPT !.pc = "raised"]
                /\ optimizer' = Adapter(method, hybrid.objective_function)
           ELSE /\ hybrid' = [hybrid EXCEPT
                       !.pc = "run",
                       !.param_space = refine_search_space(@, hybrid.discrete,
                                                           hybrid.best_result.parameters)]
                /\ optimizer' = Adapter(method, hybrid.objective_function)
    /\ UNCHANGED <<filter, single, pair, metrics>>

\* line 578: adapter.optimize(param_space, verbose=verbose, **kwargs), which
\* raises TypeError for a keyword the class's optimize() does not take
HybridRun ==
    /\ hybrid.pc = "run"
    /\ optimizer.pc = "idle"
    /\ IF ~(DOMAIN hybrid.kwargs \subseteq Keywords(optimizer.method))
       THEN hybrid' = [hybrid EXCEPT !.pc = "raised"]
            /\ UNCHANGED <<filter, single, pair, optimizer, metrics>>
       ELSE \/ GridOptimize(hybrid.param_space[1], hybrid.param_space[2])
            \/ /\ optimizer.method = "random_search"
               /\ RandomOptimize(hybrid.param_space, hybrid.kwargs.n_iter)
            \/ /\ optimizer.method = "genetic_algorithm"
               /\ \E population \in [1..hybrid.kwargs.population_size -> Sample(hybrid.param_space)] :
                     GeneticOptimize(hybrid.param_space, hybrid.kwargs.generations,
                                     hybrid.kwargs.elite_size, population)
            \/ /\ optimizer.method = "bayesian_optimization"
               /\ BayesianOptimize(hybrid.param_space, hybrid.kwargs.n_iter, hybrid.kwargs.n_initial)

\* lines 578-583: the phase's call has returned
HybridCollect ==
    /\ hybrid.pc = "run"
    /\ optimizer.pc = "returned"
    /\ hybrid' = [hybrid EXCEPT
           !.pc = "phase",
           !.all_results = Append(@, optimizer.returned),
           !.best_result = IF hybrid.all_results = <<>> THEN optimizer.returned
                           ELSE IF FGreater(optimizer.returned.score, @.score)
                           THEN optimizer.returned ELSE @]
    /\ UNCHANGED <<filter, single, pair, optimizer, metrics>>

\* line 578: the phase's call has raised, and so does the hybrid's
HybridRaise ==
    /\ hybrid.pc = "run"
    /\ optimizer.pc = "raised"
    /\ hybrid' = [hybrid EXCEPT !.pc = "raised"]
    /\ UNCHANGED <<filter, single, pair, optimizer, metrics>>

\* lines 586-589
RECURSIVE combined_history(_, _)
combined_history(all_results, k) ==
    IF k = 0 THEN <<>>
    ELSE combined_history(all_results, k - 1) \o all_results[k].convergence_history

\* lines 585-594: the best result, renamed and given the combined history
HybridReturn ==
    /\ hybrid.pc = "phase"
    /\ Len(hybrid.all_results) = Len(hybrid.methods)
    /\ hybrid' = [hybrid EXCEPT
           !.pc = "returned",
           !.returned = [hybrid.best_result EXCEPT
               !.method = <<"hybrid">> \o hybrid.methods,
               !.convergence_history =
                   combined_history(hybrid.all_results, Len(hybrid.all_results))]]
    /\ UNCHANGED <<filter, single, pair, optimizer, metrics>>

HybridNext ==
    \/ \E name \in MethodNames, method_class \in MethodClasses :
          HybridRegister(name, method_class)
    \/ /\ HybridCallable
       /\ Created(hybrid.methods, hybrid.factory.methods) \subseteq {"grid_search"}
       /\ \E kwargs \in Kwargs(hybrid.methods, hybrid.factory.methods), xs \in Lists, ys \in Lists :
             /\ Len(xs) * Len(ys) <= MaxPhaseIter
             /\ HybridOptimize(<<xs, ys>>, TRUE, kwargs)
    \/ /\ HybridCallable
       /\ \E kwargs \in Kwargs(hybrid.methods, hybrid.factory.methods) :
             HybridOptimize(FullSpace, FALSE, kwargs)
    \/ HybridCreate
    \/ HybridRun
    \/ GridIterate
    \/ GridReturn
    \/ RandomIterate
    \/ RandomReturn
    \/ GeneticEvaluate
    \/ GeneticRaise
    \/ GeneticBreed
    \/ GeneticReturn
    \/ BayesianInitial
    \/ BayesianAcquire
    \/ BayesianReturn
    \/ HybridCollect
    \/ HybridRaise
    \/ HybridReturn

HybridSpec == HybridInit /\ [][HybridNext]_vars

(* ---- metric adapters (src/src/tools/metrics_adapter.py) ---- *)
\* A TradeResult is <<entry_price, exit_price>>, position_size being 1.0.
\* Every value is a double and every operation rounds as the float
\* operation of the code does.
\* lines 21-24
return_pct(trade) ==
    F64Mul(F64DivInt(F64Int(trade[2] - trade[1]), trade[1]), F64Int(100))

\* lines 26-29
profit(trade) == F64Int(trade[2] - trade[1])

\* [trade.return_pct / 100 for trade in trades]
Returns(trades) == [k \in DOMAIN trades |-> F64DivInt(return_pct(trades[k]), 100)]

\* [r for r in returns if r < target]
RECURSIVE Below(_, _)
Below(values, target) ==
    IF values = <<>> THEN <<>>
    ELSE IF F64Less(Head(values), target) THEN <<Head(values)>> \o Below(Tail(values), target)
         ELSE Below(Tail(values), target)

\* The first k values added one after the other from 0: sum() of Python,
\* and np.sum for fewer than 8 values.
RECURSIVE FSum(_, _)
FSum(values, k) ==
    IF k = 0 THEN F64Zero ELSE F64Add(FSum(values, k - 1), values[k])

\* np.mean(values)
np_mean(values) == F64DivInt(FSum(values, Len(values)), Len(values))

\* x * x
Square(x) == F64Mul(x, x)

\* np.std(values, ddof=1): the deviations from the mean are squared, summed
\* and divided by max(n - 1, 0), which is 0 / 0 = nan for a single value
np_std(values) ==
    LET arrmean == np_mean(values)
        squares == [k \in DOMAIN values |-> Square(F64Sub(values[k], arrmean))]
    IN  F64Sqrt(F64DivInt(FSum(squares, Len(values)),
                          IF Len(values) > 1 THEN Len(values) - 1 ELSE 0))

periods_per_year == 252

\* np.sqrt(self.periods_per_year)
SqrtPeriods == F64Sqrt(F64Int(periods_per_year))

\* lines 76-83 and 264-271: 0.0 for a deviation of 0, else the ratio of the
\* average return less the rate or target of 0.0 to the deviation, annualized
Annualized(avg_return, deviation) ==
    IF IsZero(deviation) THEN F64Zero
    ELSE F64Mul(F64Div(F64Sub(avg_return, F64Zero), deviation), SqrtPeriods)

\* SharpeRatioAdapter.calculate, lines 63-83, risk_free_rate = 0.0
sharpe_ratio(trades) ==
    IF trades = <<>> THEN F64Int(-999)
    ELSE IF Len(trades) < 2 THEN F64Zero
    ELSE Annualized(np_mean(Returns(trades)), np_std(Returns(trades)))

\* TotalReturnAdapter.calculate, lines 98-104
total_return(trades) ==
    IF trades = <<>> THEN F64Zero
    ELSE FSum([k \in DOMAIN trades |-> return_pct(trades[k])], Len(trades))

\* WinRateAdapter.calculate, lines 119-127
win_rate(trades) ==
    IF trades = <<>> THEN F64Zero
    ELSE LET winning_trades ==
                 Cardinality({k \in DOMAIN trades : F64Less(F64Zero, return_pct(trades[k]))})
         IN  F64Mul(F64DivInt(F64Int(winning_trades), Len(trades)), F64Int(100))

\* [trade.profit for trade in trades if trade.profit > 0] when sign is 1,
\* [... if trade.profit < 0] when it is -1
RECURSIVE Profits(_, _)
Profits(trades, sign) ==
    IF trades = <<>> THEN <<>>
    ELSE IF sign * (Head(trades)[2] - Head(trades)[1]) > 0
    THEN <<profit(Head(trades))>> \o Profits(Tail(trades), sign)
    ELSE Profits(Tail(trades), sign)

\* sum(values)
Sum(values) == FSum(values, Len(values))

\* lines 150-153
Factor(gross_profit, gross_loss) ==
    IF IsZero(gross_loss)
    THEN (IF F64Less(F64Zero, gross_profit) THEN F64Int(999) ELSE F64Zero)
    ELSE F64Div(gross_profit, gross_loss)

\* ProfitFactorAdapter.calculate, lines 142-153
profit_factor(trades) ==
    IF trades = <<>> THEN F64Zero
    ELSE Factor(Sum(Profits(trades, 1)), F64Abs(Sum(Profits(trades, -1))))

\* lines 174-179: the equity after the first k trades
RECURSIVE Equity(_, _)
Equity(trades, k) ==
    IF k = 0 THEN F64Int(1)
    ELSE F64Mul(Equity(trades, k - 1),
                F64Add(F64Int(1), F64DivInt(return_pct(trades[k]), 100)))

\* min(max_dd, drawdown)
Lesser(max_dd, drawdown) == IF F64Less(drawdown, max_dd) THEN drawdown ELSE max_dd

\* lines 187-188 for a peak
DrawdownAt(peak, value, max_dd) ==
    <<peak, Lesser(max_dd, F64Mul(F64Div(F64Sub(value, peak), peak), F64Int(100)))>>

\* lines 186-188 for a value of the equity curve, before being <<peak, max_dd>>
DrawdownStep(before, value) ==
    DrawdownAt(IF F64Less(before[1], value) THEN value ELSE before[1], value, before[2])

\* lines 182-188: <<peak, max_dd>> after the first k values of the equity curve
RECURSIVE Drawdown(_, _)
Drawdown(trades, k) ==
    IF k = 0 THEN <<F64Int(1), F64Zero>>
    ELSE DrawdownStep(Drawdown(trades, k - 1), Equity(trades, k - 1))

\* MaxDrawdownAdapter.calculate, lines 168-190
max_drawdown(trades) ==
    IF trades = <<>> THEN F64Zero
    ELSE F64Abs(Drawdown(trades, Len(trades) + 1)[2])

\* lines 226-229
Calmar(annualized_return, max_dd) ==
    IF IsZero(max_dd)
    THEN (IF F64Less(F64Zero, annualized_return) THEN F64Int(999) ELSE F64Zero)
    ELSE F64Div(annualized_return, max_dd)

\* CalmarRatioAdapter.calculate, lines 208-229
calmar_ratio(trades) ==
    IF trades = <<>> THEN F64Zero
    ELSE Calmar(F64Mul(F64DivInt(total_return(trades), 100),
                       F64DivInt(F64Int(periods_per_year), Len(trades))),
                F64DivInt(max_drawdown(trades), 100))

\* lines 259-271
Sortino(avg_return, downside_returns) ==
    IF downside_returns = <<>> THEN F64Int(999)
    ELSE Annualized(avg_return, np_std(downside_returns))

\* SortinoRatioAdapter.calculate, lines 248-271, target_return = 0.0
sortino_ratio(trades) ==
    IF Len(trades) < 2 THEN F64Zero
    ELSE Sortino(np_mean(Returns(trades)), Below(Returns(trades), F64Zero))

\* the subclasses of MetricAdapter that MetricFactory can build without
\* arguments
Adapters ==
    {"SharpeRatioAdapter", "TotalReturnAdapter", "WinRateAdapter", "ProfitFactorAdapter",
     "MaxDrawdownAdapter", "CalmarRatioAdapter", "SortinoRatioAdapter"}

\* metric_class().calculate(trades)
calculate(metric_class, trades) ==
    CASE metric_class = "SharpeRatioAdapter" -> sharpe_ratio(trades)
      [] metric_class = "TotalReturnAdapter" -> total_return(trades)
      [] metric_class = "WinRateAdapter" -> win_rate(trades)
      [] metric_class = "ProfitFactorAdapter" -> profit_factor(trades)
      [] metric_class = "MaxDrawdownAdapter" -> max_drawdown(trades)
      [] metric_class = "CalmarRatioAdapter" -> calmar_ratio(trades)
      [] metric_class = "SortinoRatioAdapter" -> sortino_ratio(trades)

\* MetricFactory._metrics, lines 286-294
Registry ==
    <<<<"sharpe_ratio", "SharpeRatioAdapter">>, <<"total_return", "TotalReturnAdapter">>,
      <<"win_rate", "WinRateAdapter">>, <<"profit_factor", "ProfitFactorAdapter">>,
      <<"max_drawdown", "MaxDrawdownAdapter">>, <<"calmar_ratio", "CalmarRatioAdapter">>,
      <<"sortino_ratio", "SortinoRatioAdapter">>>>

\* MetricFactory.list_available, lines 310-313
list_available(registry) == [k \in DOMAIN registry |-> registry[k][1]]

\* MetricFactory.create, lines 296-309: the class of the adapter built, or
\* the exception raised
create(registry, metric_name) ==
    IF ~Registered(registry, metric_name) THEN "ValueError"
    ELSE ClassOf(registry, metric_name)

\* what the calls of the model pass: to register() a registered name or a new
\* one and an adapter class or a class that is no MetricAdapter, to create()
\* these names, another registered name and one that is never registered
MetricNames == {"sharpe_ratio", "custom"}
MetricClasses == {"TotalReturnAdapter", "object"}
CreateNames == MetricNames \cup {"sortino_ratio", "nonexistent"}

MetricInit ==
    /\ FilterIdle
    /\ SingleIdle
    /\ NoPair
    /\ optimizer = <<>>
    /\ hybrid = <<>>
    /\ metrics = [registry |-> Registry, registered |-> 0, trades |-> <<>>,
                  scores |-> <<>>, created |-> <<>>, error |-> ""]

\* no adapter is waiting for its calculate() and no exception is on its way
\* to the caller
Ready == metrics.created = <<>> /\ metrics.error = ""

\* MetricFactory.register, lines 315-320
Register(name, metric_class) ==
    /\ Ready
    /\ metrics.registered < MaxRegistered
    /\ IF metric_class \notin Adapters
       THEN metrics' = [metrics EXCEPT !.error = "TypeError"]
       ELSE metrics' = [metrics EXCEPT !.registry = SetItem(metrics.registry, name, metric_class),
                                       !.registered = metrics.registered + 1,
                                       !.scores = <<>>]
    /\ UNCHANGED <<filter, single, pair, optimizer, hybrid>>

\* a trade is closed and joins the list
Trade(entry_price, exit_price) ==
    /\ Ready
    /\ Len(metrics.trades) < MaxTrades
    /\ metrics' = [metrics EXCEPT !.trades = Append(metrics.trades, <<entry_price, exit_price>>),
                                  !.scores = <<>>]
    /\ UNCHANGED <<filter, single, pair, optimizer, hybrid>>

\* metric = MetricFactory.create(metric_name), lines 296-309
Create(metric_name) ==
    /\ Ready
    /\ metrics.scores = <<>>
    /\ IF create(metrics.registry, metric_name) = "ValueError"
       THEN metrics' = [metrics EXCEPT !.error = "ValueError"]
       ELSE metrics' = [metrics EXCEPT !.created = <<metric_name,
                                                     create(metrics.registry, metric_name)>>]
    /\ UNCHANGED <<filter, single, pair, optimizer, hybrid>>

\* scores = {metric.get_name(): metric.calculate(trades)} for the adapter
\* that create() returned
AdapterCalculate ==
    /\ metrics.created # <<>>
    /\ metrics' = [metrics EXCEPT
                      !.scores = <<<<metrics.created[1],
                                     calculate(metrics.created[2], metrics.trades)>>>>,
                      !.created = <<>>]
    /\ UNCHANGED <<filter, single, pair, optimizer, hybrid>>

\* every registered metric is calculated for the list, as in
\* 'for metric_name in MetricFactory.list_available()' of the tests
CalculateAll ==
    /\ Ready
    /\ metrics.scores = <<>>
    /\ metrics' = [metrics EXCEPT
                      !.scores = [k \in DOMAIN metrics.registry |->
                                    <<metrics.registry[k][1],
                                      calculate(create(metrics.registry, metrics.registry[k][1]),
                                                metrics.trades)>>]]
    /\ UNCHANGED <<filter, single, pair, optimizer, hybrid>>

\* the caller drops the scores it holds
Clear ==
    /\ Ready
    /\ metrics.scores # <<>>
    /\ metrics' = [metrics EXCEPT !.scores = <<>>]
    /\ UNCHANGED <<filter, single, pair, optimizer, hybrid>>

\* the caller catches the exception of register() or create()
Caught ==
    /\ metrics.error # ""
    /\ metrics' = [metrics EXCEPT !.error = ""]
    /\ UNCHANGED <<filter, single, pair, optimizer, hybrid>>

MetricNext ==
    \/ \E name \in MetricNames, metric_class \in MetricClasses : Register(name, metric_class)
    \/ \E entry_price \in EntryPrices, exit_price \in ExitPrices : Trade(entry_price, exit_price)
    \/ \E metric_name \in CreateNames : Create(metric_name)
    \/ AdapterCalculate
    \/ CalculateAll
    \/ Clear
    \/ Caught

MetricSpec == MetricInit /\ [][MetricNext]_vars

(* ---- calculate() given price lists that hold NaN ---- *)
\* Prices that are not a number among the finite ones from bar 2 * length
\* on (the bars before it are never read), the caller keeping the list and
\* the outputs of the call before the running one.
NanInit == Init

NanNext ==
    \/ calls = 0 /\ Calculate
    \/ CalculateAgain
    \/ \E p \in Prices : SkipBar(RInt(p))
    \/ \E p \in Prices : WarmupBar(RInt(p))
    \/ \E p \in Prices : StepBar(RInt(p))
    \/ StepBar(NaN)

NanSpec == NanInit /\ [][NanNext]_vars

(* ---------------- _laguerre_filter on its own ---------------- *)
\* The step as a function of the stage state and its three arguments:
\* _laguerre_filter(price, gamma, bar) called on an object whose stages hold
\* any values.  prices, gamma_values and laguerre list the prices and gammas
\* passed and the values returned, i - 1 is the bar of the last call.
StageValues == {RInt(1), RNorm(3, 2)}
Gammas == {Zero, RNorm(1, 2), One}

DirectInit ==
    /\ SingleIdle /\ NoPair /\ NoTools
    /\ constructor = "returned"
    /\ length = 1
    /\ order \in 1..MaxOrder
    /\ adaptive_mode = FALSE
    /\ adaptive_smooth = 1
    /\ adaptive_smooth_mode = MEDIAN
    /\ L \in [1..order -> StageValues \X StageValues]
    /\ ema_buffer = <<Zero, Zero>>
    /\ ema_initialized = FALSE
    /\ calls = 0
    /\ steps = 0
    /\ prices = <<>>
    /\ i = 0
    /\ laguerre = <<>>
    /\ trend = <<>>
    /\ gamma_values = <<>>
    /\ diff = <<>>
    /\ raw = <<>>
    /\ result = <<>>
    /\ error = ""

\* lines 142-179
laguerre_filter(price, gamma, bar) ==
    /\ steps < MaxDirect
    /\ \A s \in 1..order : Fits(L[s][1])
    /\ StepFits(gamma, L, order)
    /\ L' = LaguerreState(L, price, gamma, bar, order)
    /\ laguerre' = Append(laguerre, LaguerreValue(L', order))
    /\ prices' = Append(prices, price)
    /\ gamma_values' = Append(gamma_values, gamma)
    /\ i' = bar + 1
    /\ steps' = steps + 1
    /\ UNCHANGED <<config, ema_buffer, ema_initialized, calls, trend, diff, raw,
                   result, error, single, pair, tools>>

DirectNext ==
    \E price \in StageValues, gamma \in Gammas, bar \in 0..(MaxOrder + 1) :
        laguerre_filter(price, gamma, bar)

DirectSpec == DirectInit /\ [][DirectNext]_vars

(* ======================= properties ======================= *)
\* the bars of the running call that got an output
Emitted == {k \in 0..(i - 1) : Emits(k, length)}

\* the last iteration of the running call was a filter step
Stepped == i > 0 /\ Emits(i - 1, length)

\* C1: in a step of the recursion branch (bar > order) with price p and
\* gamma g, gam = 1 - g, the new stage 0 value is (1 - gam) * p + gam * prev[0]
\* and every later stage i is -gam * new[i-1] + prev[i-1] + gam * prev[i],
\* prev being the stage values before the step.
C1_StageRecursion ==
    [][(steps' = steps + 1 /\ i > order) =>
        \A p \in {prices'[i + 1]}, gam \in {RSub(One, gamma_values'[i + 1])} :
            /\ \A a \in {RMul(RSub(One, gam), p)}, b \in {RMul(gam, L[1][1])} :
                  L'[1][1] = RAdd(a, b)
            /\ \A s \in 2..order :
                  \A a \in {RMul(RNeg(gam), L'[s - 1][1])}, b \in {RMul(gam, L[s][1])} :
                      L'[s][1] = RAdd(RAdd(a, L[s - 1][1]), b)]_vars

\* a recursion step has run on two stages and left them different
C1_Witness ==
    /\ Stepped
    /\ i - 1 > order
    /\ order >= 2
    /\ L[2][1] # L[1][1]
    /\ L[1][2] # Zero

\* C4: after every filter step the previous value of every stage is the
\* current value the stage held before the step.
C4_SnapshotPrevious ==
    [][(steps' = steps + 1) => \A s \in 1..order : L'[s][2] = L[s][1]]_vars

\* a step has moved a non-zero current value into previous and changed current
C4_Witness ==
    /\ Stepped
    /\ order >= 2
    /\ \A s \in 1..order : L[s][2] # Zero /\ L[s][2] # L[s][1]

\* C5: calculate() ends no bar with an exception, and the filtered value of
\* every bar k it has been given is there and is undefined exactly when
\* k < 2 * length.
C5_DefinedFromWarmup ==
    /\ error = ""
    /\ Len(laguerre) = Len(prices)
    /\ \A k \in 0..(Len(laguerre) - 1) : IsNaN(At(laguerre, k)) <=> (k < 2 * length)

\* C2: a fresh filter that calculate() has fed a constant price p for its
\* first `order` samples holds p in every stage's current value.
C2_BootstrapSeedsStages ==
    (calls = 1 /\ i = order /\ \A k \in 1..order : prices[k] = prices[1])
        => \A s \in 1..order : L[s][1] = prices[1]

\* C3: in a series the bootstrap branch (every stage set to the price) runs on
\* exactly the first `order` samples and the stage recursion on every sample
\* from sample order + 1 onward.
C3_BootstrapFirstOrderSamples ==
    [][(calls = 1 /\ i' = i + 1) =>
        LET p == prices'[i + 1]
            gam == RSub(One, gamma_values'[i + 1])
        IN  IF i < order
            THEN \A s \in 1..order : L'[s][1] = p
            ELSE /\ steps' = steps + 1
                 /\ L'[1][1] = RAdd(RMul(RSub(One, gam), p), RMul(gam, L[1][1]))
                 /\ \A s \in 2..order :
                       L'[s][1] = RAdd(RAdd(RMul(RNeg(gam), L'[s - 1][1]), L[s - 1][1]),
                                       RMul(gam, L[s][1]))]_vars

\* the last `period` entries of the raw efficiency-ratio series up to bar k
RawWindow(period, k) == Valid(Slice(raw, IF k - period + 1 > 0 THEN k - period + 1 ELSE 0, k + 1))

\* the linearly weighted mean of the raw values, weight period - lag
RECURSIVE RawWeighted(_, _, _)
RawWeighted(period, k, lag) ==
    IF lag >= period \/ k - lag < 0 \/ IsNaN(At(raw, k - lag)) THEN <<0, Zero>>
    ELSE LET rest == RawWeighted(period, k, lag + 1)
         IN  <<rest[1] + (period - lag),
               RAdd(rest[2], RMul(At(raw, k - lag), RInt(period - lag)))>>

\* C6: in SMA, LWMA and MEDIAN mode the gamma of bar k is the mean, the
\* linearly weighted mean and the median of the last adaptive_smooth raw
\* efficiency ratios, the one of bar k included.
C6_SmoothedFromRaw ==
    (adaptive_mode /\ adaptive_smooth_mode \in {SMA, LWMA, MEDIAN}) =>
        \A k \in Emitted :
            LET w == RawWindow(adaptive_smooth, k)
                lw == RawWeighted(adaptive_smooth, k, 0)
            IN  At(gamma_values, k) =
                    IF adaptive_smooth_mode = SMA THEN Mean(w)
                    ELSE IF adaptive_smooth_mode = LWMA THEN RDiv(lw[2], RInt(lw[1]))
                    ELSE Median(w)

\* C7: in adaptive mode the gamma of every bar lies in [0, 1].
C7_GammaInUnitInterval ==
    adaptive_mode =>
        \A k \in Emitted :
            /\ ~IsNaN(At(gamma_values, k))
            /\ RLeq(Zero, At(gamma_values, k))
            /\ RLeq(At(gamma_values, k), One)

\* the deviations of the efficiency-ratio window of bar k
DevWindow(k) == {At(diff, j) : j \in (IF k - length + 1 > 0 THEN k - length + 1 ELSE 0)..k}

\* a smoothed gamma strictly inside (0, 1) after a first bar with a flat window
C7_Witness ==
    /\ adaptive_mode
    /\ i >= 2 * length + 2
    /\ Cardinality(DevWindow(2 * length)) = 1
    /\ At(gamma_values, 2 * length) = Zero
    /\ RLess(Zero, At(gamma_values, i - 1))
    /\ RLess(At(gamma_values, i - 1), One)
    /\ RLess(At(raw, i - 1), At(gamma_values, i - 1))

\* C8: every gamma handed to the Laguerre recursion is strictly between 0 and 1.
C8_GammaStrictlyInside ==
    \A k \in Emitted :
        RLess(Zero, At(gamma_values, k)) /\ RLess(At(gamma_values, k), One)

\* C9: with adaptive mode off the gamma of every bar is 10 / (length + 9).
C9_FixedGamma ==
    ~adaptive_mode =>
        \A k \in Emitted :
            /\ At(gamma_values, k)[2] > 0
            /\ At(gamma_values, k)[1] * (length + 9) = 10 * At(gamma_values, k)[2]

\* a fixed-gamma step of a second call on an instance an earlier call has stepped
C9_Witness ==
    /\ ~adaptive_mode
    /\ calls = 2
    /\ Stepped
    /\ steps > i - 2 * length
    /\ L[1][2] # Zero

\* C10: the raw efficiency ratio of bar k is (d_k - min) / (max - min) over
\* the trailing `length` deviations ending at k, d_k being the deviation of
\* the price from the previous filtered value (0 where there is none yet); it
\* is 0 when max = min and always lies in [0, 1].
C10_EfficiencyRatio ==
    adaptive_mode =>
        \A k \in Emitted :
            LET w == DevWindow(k)
                d == At(diff, k)
                e == At(raw, k)
            IN  /\ \A x \in w : ~IsNaN(x)
                /\ d = IF IsNaN(At(laguerre, k - 1)) THEN Zero
                       ELSE RAbs(RSub(prices[k + 1], At(laguerre, k - 1)))
                /\ \E mn \in w, mx \in w :
                      /\ \A x \in w : RLeq(mn, x) /\ RLeq(x, mx)
                      /\ IF mx = mn THEN e = Zero
                         ELSE RMul(e, RSub(mx, mn)) = RSub(d, mn)
                /\ RLeq(Zero, e) /\ RLeq(e, One)

\* a bar whose efficiency ratio is a proper fraction, after a flat first window
C10_Witness ==
    /\ adaptive_mode
    /\ Stepped
    /\ Cardinality(DevWindow(2 * length)) = 1
    /\ At(raw, 2 * length) = Zero
    /\ RLess(Zero, At(raw, i - 1))
    /\ RLess(At(raw, i - 1), One)

\* the smoothed gamma the instance emitted last before bar i of the running call
PreviousGamma == IF i > 0 /\ Emits(i - 1, length) THEN At(gamma_values, i - 1) ELSE ema_buffer[2]

\* C11: in EMA and WILDER mode the gamma of the first step of the instance is
\* the raw efficiency ratio of that step, and the gamma of every later step is
\* g_prev + alpha * (raw - g_prev), alpha = 2 / (1 + period), the period being
\* adaptive_smooth in EMA mode and 2 * adaptive_smooth - 1 in WILDER mode.
C11_EmaSeedAndUpdate ==
    [][(steps' = steps + 1 /\ adaptive_mode /\ adaptive_smooth_mode \in {EMA, WILDER}) =>
        \A r \in {raw'[i + 1]}, g \in {PreviousGamma},
           alpha \in {RNorm(2, 1 + (IF adaptive_smooth_mode = EMA THEN adaptive_smooth
                                    ELSE 2 * adaptive_smooth - 1))} :
            gamma_values'[i + 1] =
                IF steps = 0 THEN r ELSE RAdd(g, RMul(alpha, RSub(r, g)))]_vars

\* a WILDER update with alpha < 1 has moved the gamma part of the way to the raw value
C11_Witness ==
    /\ adaptive_mode
    /\ adaptive_smooth_mode = WILDER
    /\ adaptive_smooth >= 2
    /\ Stepped
    /\ steps >= 2
    /\ At(gamma_values, i - 1) # At(raw, i - 1)
    /\ RLess(Zero, At(gamma_values, i - 1))

\* bar k and the bar before it both have a filtered value
BothDefined(k) == ~IsNaN(At(laguerre, k)) /\ ~IsNaN(At(laguerre, k - 1))

\* C12: a bar whose filtered value equals the defined filtered value of the
\* bar before it gets the trend of the bar before it.
C12_TrendCarriedForward ==
    \A k \in Emitted :
        (BothDefined(k) /\ At(laguerre, k) = At(laguerre, k - 1))
            => At(trend, k) = At(trend, k - 1)

\* C13: a bar whose filtered value is above the defined filtered value of the
\* bar before it gets trend 1 (up), and one whose filtered value is below it
\* gets trend 2 (down), whatever the values' sign and the bar's index.
C13_TrendFromComparison ==
    \A k \in Emitted :
        BothDefined(k) =>
            /\ RLess(At(laguerre, k - 1), At(laguerre, k)) => At(trend, k) = 1
            /\ RLess(At(laguerre, k), At(laguerre, k - 1)) => At(trend, k) = 2

\* every gamma the running call has used lies strictly between 0 and 1
GammasInside ==
    \A k \in Emitted : RLess(Zero, At(gamma_values, k)) /\ RLess(At(gamma_values, k), One)

\* C14: when every gamma of a first call lies in (0, 1), every filtered value
\* lies between the lowest and the highest price of the series.
C14_OutputWithinPriceRange ==
    (calls = 1 /\ i > 0 /\ GammasInside) =>
        \A lo \in {RMin(prices)}, hi \in {RMax(prices)} :
            \A k \in Emitted : RLeq(lo, At(laguerre, k)) /\ RLeq(At(laguerre, k), hi)

\* C18: the filtered value the numpy variant returns for a step is the value
\* the simple variant returns for the same stage values, their arithmetic
\* mean sum(stageValues) / order.
C18_VariantsAgreeOnMean ==
    Stepped => At(laguerre, i - 1) = SimpleLaguerreValue(L)

\* C19: a later call that has consumed the price list of the call before it
\* has produced the filtered sequence that call returned.
C19_SecondCallSameResult ==
    (calls >= 2 /\ result # <<>> /\ prices = result[1]) => laguerre = result[2]

\* C17: the constructor returns an instance only for a positive length, a
\* positive order, a positive adaptive smoothing period and a known
\* smoothing mode, and stores the values as given.
C17_InvalidConfigRejected ==
    constructor = "returned" =>
        /\ length >= 1
        /\ order >= 1
        /\ adaptive_smooth >= 1
        /\ adaptive_smooth_mode \in SmoothMode

\* the series fed so far is flat
Constant == \A k \in DOMAIN single_prices : single_prices[k] = single_prices[1]

\* 1e-6
Tolerance == <<1, <<100>>, 2>>

\* C15: once a flat series of price p has run for 200 samples beyond the first
\* `order` ones, the value calculate_single returns for a fixed gamma in (0, 1)
\* is within 1e-6 of p.
C15_ConvergesOnConstantInput ==
    (Len(single_prices) >= single_order + 200 /\ Constant) =>
        \A j \in 1..2 :
            DLeq(DAbs(DSub(single_result[j][1], DInt(single_order * single_prices[1]))),
                 DTimes(Tolerance, single_order))

\* 10 samples at 100 followed by 6 at 110: the last result is results[15]
StepChange == [k \in 1..16 |-> IF k <= 10 THEN 100 ELSE 110]

\* C20: of two filters fed the step change, the one stepped with gamma 0.1
\* has captured more of the change at index 15 than the one stepped with 0.9.
C20_LowerGammaMoreResponsive ==
    (single_prices = StepChange /\ single_gamma = <<1000, 9000>>) =>
        DLess(single_result[2][1], single_result[1][1])

\* C21: a bar gets a defined filtered value only past the warm-up
\* (k >= 2 * length) and past the bootstrap (k > order), so never from a step
\* that takes the bootstrap branch of the Laguerre step.
C21_OutputOnlyWhenSteady ==
    \A k \in 0..(i - 1) :
        ~IsNaN(At(laguerre, k)) => (k >= 2 * length /\ k > order)

\* C22: the bars of a call leave the stage values and the smoothing state of
\* the object that is not self as they were, and a call on the other object
\* finds that object in the state its own last call (or __init__) left, the
\* object called before keeping its state.
C22_InstancesShareNoState ==
    [][/\ (i' = i + 1) => (other' = other)
       /\ (bound' # bound) => (instance' = other /\ other' = instance)]_vars

\* a call on the second object has stepped it after a call stepped the first,
\* and the two objects hold different stage values
C22_Witness ==
    /\ calls >= 2
    /\ bound = 2
    /\ Stepped
    /\ other # <<>>
    /\ other[1][1][1] # Zero
    /\ other[1] # L
    /\ adaptive_mode
    /\ other[3]
    /\ other[2] # ema_buffer

\* 6 samples at 100, the start of 10 samples at 100 followed by 10 at 110:
\* the last result is results[5]
StepStart == [k \in 1..6 |-> 100]

\* C23: a fresh filter of order 4 stepped with gamma 0.5 over the step series
\* returns at index 5 a value between 100 and 110.
C23_StepOutputWithinRange ==
    (single_order = 4 /\ single_gamma[2] = 5000 /\ single_prices = StepStart) =>
        /\ DLeq(DInt(4 * 100), single_result[2][1])
        /\ DLeq(single_result[2][1], DInt(4 * 110))

\* C24: filters that differ only in length, stepped over the same series
\* with the same gamma, have not all returned the same last value.
C24_LengthAffectsResult ==
    (single_length = Lengths /\ single_prices # <<>>) =>
        ~(single_result[1] = single_result[2] /\ single_result[2] = single_result[3])

\* C25: a grid search or random search that has returned has evaluated the
\* objective once per candidate, in order (every combination of the grid, or
\* n_iter samples), holds one score per candidate in convergence_history in
\* that order, reports their number as iterations, and returns the greatest
\* recorded score with the first parameter set evaluated that achieved it.
C25_SearchEvaluatesEachCandidateOnce ==
    (optimizer.pc = "returned" /\ optimizer.method \in {"grid_search", "random_search"}) =>
        LET r == optimizer.returned
            h == optimizer.returned.convergence_history
            n == IF optimizer.method = "grid_search" THEN Len(optimizer.combinations)
                 ELSE optimizer.n_iter
        IN  /\ optimizer.method = "grid_search" => optimizer.evaluated = optimizer.combinations
            /\ Len(optimizer.evaluated) = n
            /\ r.iterations = n
            /\ Len(h) = n
            /\ \A k \in 1..n : h[k] = optimizer.objective_function[optimizer.evaluated[k]]
            /\ \A k \in 1..n : ~FGreater(h[k], r.score)
            /\ \E k \in 1..n :
                  /\ h[k] = r.score
                  /\ r.parameters = optimizer.evaluated[k]
                  /\ \A j \in 1..(k - 1) : h[j] # r.score

\* C26: a Bayesian optimization that has returned has evaluated the objective
\* n_iter times in all, for every n_iter and n_initial.
C26_BayesianEvaluatesNIter ==
    (optimizer.pc = "returned" /\ optimizer.method = "bayesian_optimization") =>
        /\ optimizer.returned.iterations = optimizer.n_iter
        /\ Len(optimizer.returned.convergence_history) = optimizer.n_iter

\* C27: for a non-empty list of trades with positive entry prices every
\* registered metric returns a finite number, never NaN or an infinity.
C27_MetricsFinite ==
    (metrics.trades # <<>> /\ metrics.scores # <<>>) =>
        \A k \in DOMAIN metrics.scores : IsFinite(metrics.scores[k][2])

\* C28: the Laguerre step is first invoked at bar 2 * length, so a step takes
\* the bootstrap branch (bar <= order) only when 2 * length <= order; when
\* 2 * length > order the first step of a fresh instance starts from the
\* all-zero stage state and applies the recursion to it: stage 0 becomes
\* gamma * price, every later stage -(1 - gamma) times the stage before it,
\* and the first output is the triangular average of these values.
C28_FirstStepRecursionOnZeroState ==
    [][(steps' = steps + 1) =>
        /\ i >= 2 * length
        /\ (steps = 0) => (i = 2 * length)
        /\ (i <= order) => (2 * length <= order)
        /\ (steps = 0 /\ 2 * length > order) =>
              \A p \in {prices'[i + 1]}, g \in {gamma_values'[i + 1]} :
                  /\ L = [s \in 1..order |-> <<Zero, Zero>>]
                  /\ L'[1] = <<RMul(g, p), Zero>>
                  /\ \A s \in 2..order :
                        L'[s] = <<RMul(RNeg(RSub(One, g)), L'[s - 1][1]), Zero>>
                  /\ laguerre'[i + 1] =
                        trima_gen([s \in 1..order |-> L'[s][1]], order)]_vars

\* the first step of a fresh instance with 2 * length > order has run on a
\* positive price with a gamma below 1, and neither the stages nor the output
\* hold the price
C28_Witness ==
    /\ calls = 1
    /\ steps = 1
    /\ order >= 2
    /\ 2 * length > order
    /\ i = 2 * length + 1
    /\ RLess(Zero, prices[i])
    /\ RLess(gamma_values[i], One)
    /\ L[1][1] # prices[i]
    /\ RLess(L[2][1], Zero)
    /\ laguerre[i] # prices[i]

\* C29: the constant state is a fixed point of the step.  When every stage's
\* current value is p and the step is given the price p with a gamma in
\* [0, 1], every stage's current value is p after the step, and the value
\* returned is p both as the triangular average of the numpy variant and as
\* the uniform mean of the simple variant.
C29_ConstantStateFixedPoint ==
    [][(steps' = steps + 1) =>
        \A p \in {prices'[steps']}, g \in {gamma_values'[steps']} :
            ((\A s \in 1..order : L[s][1] = p) /\ RLeq(Zero, g) /\ RLeq(g, One)) =>
                /\ \A s \in 1..order : L'[s][1] = p
                /\ laguerre'[steps'] = p
                /\ SimpleLaguerreValue(L') = p]_vars

\* two steps on a constant state of three stages, the last one through the
\* recursion branch with a gamma strictly inside (0, 1): the stages hold p
\* and p was returned
C29_Witness ==
    /\ steps = 2
    /\ order = 3
    /\ i - 1 > order
    /\ prices[1] = prices[2]
    /\ RLess(Zero, gamma_values[2]) /\ RLess(gamma_values[2], One)
    /\ prices[2] = RNorm(3, 2)
    /\ laguerre[1] = prices[1]
    /\ \A s \in 1..order : L[s] = <<prices[2], prices[2]>>
    /\ laguerre[2] = prices[2]
    /\ SimpleLaguerreValue(L) = prices[2]

\* the list of prices held a NaN at a bar that went through the recursion
\* branch of the step: a bar from 2 * length on, past the order
RecursionSawNaN(list, upto) ==
    \E j \in 1..upto :
        j <= Len(list) /\ IsNaN(list[j]) /\ Emits(j - 1, length) /\ j - 1 > order

\* C30: once a NaN price has gone through the recursion branch of the step,
\* every later filtered output of the instance is NaN: the outputs of the
\* rest of that call and the outputs of the calls after it.
C30_NaNContaminatesForever ==
    \A k \in 1..Len(laguerre) :
        (/\ Emits(k - 1, length)
         /\ \/ RecursionSawNaN(prices, k)
            \/ calls >= 2 /\ RecursionSawNaN(result[1], Len(result[1])))
        => IsNaN(laguerre[k])

\* within the call that was given the NaN, the outputs from that bar on are NaN
NaNStaysWithinCall ==
    \A k \in 1..Len(laguerre) :
        (Emits(k - 1, length) /\ RecursionSawNaN(prices, k)) => IsNaN(laguerre[k])

\* on objects whose steps never take the bootstrap branch the outputs of the
\* later calls are NaN as well
NaNStaysWithoutBootstrap ==
    (2 * length > order) => C30_NaNContaminatesForever
====
